---- MODULE Spec2Model ----
(***************************************************************************)
(* Checkpoint save/restore protocol of lingvo/jax/checkpoints.py.          *)
(*                                                                         *)
(* A job is a set of JAX processes that issue the same sequence of         *)
(* save_checkpoint / restore_checkpoint calls on one base directory.       *)
(* Directory names are sequences of characters, so that the naming         *)
(* functions, the regular-expression classifiers and sorted() are          *)
(* computed as the code computes them.                                     *)
(***************************************************************************)
EXTENDS Integers, Sequences, FiniteSets, TLC

\* ------------------------------------------------------------------ bounds

\* Steps of the issued calls range over 0..MaxStep.
MaxStep == 1
\* Number of save/restore calls a job issues.
MaxCalls == 2

\* The calls of a job that only saves.
MaxSaves == 3

\* jax.process_index() of the processes of the job; index 0 is rank 0.
Procs == {0, 1}

\* ----------------------------------------------------------------- strings

DigitChars == <<"0", "1", "2", "3", "4", "5", "6", "7", "8", "9">>

IsDigit(c) == \E i \in 1..10 : DigitChars[i] = c

DigitVal(c) == (CHOOSE i \in 1..10 : DigitChars[i] = c) - 1

AllDigits(s) == \A i \in 1..Len(s) : IsDigit(s[i])

\* Code points of the characters that occur in the modelled names.
CharCode(c) ==
  CASE c = "." -> 46
    [] IsDigit(c) -> 48 + DigitVal(c)
    [] c = "/" -> 47
    [] c = "_" -> 95
    [] c = "a" -> 97
    [] c = "b" -> 98
    [] c = "c" -> 99
    [] c = "d" -> 100
    [] c = "e" -> 101
    [] c = "h" -> 104
    [] c = "i" -> 105
    [] c = "k" -> 107
    [] c = "m" -> 109
    [] c = "n" -> 110
    [] c = "o" -> 111
    [] c = "p" -> 112
    [] c = "t" -> 116
    [] OTHER -> 120

\* Python's str ordering, used by sorted().
RECURSIVE StrLess(_, _)
StrLess(a, b) ==
  IF a = <<>> THEN b # <<>>
  ELSE IF b = <<>> THEN FALSE
  ELSE IF Head(a) = Head(b) THEN StrLess(Tail(a), Tail(b))
  ELSE CharCode(Head(a)) < CharCode(Head(b))

\* Mutant: sorted(names)[0]
SortedFirst(names) == CHOOSE x \in names : \A y \in names : y = x \/ StrLess(x, y)

\* sorted(names)[-1]
SortedLast(names) == CHOOSE x \in names : \A y \in names : y = x \/ StrLess(y, x)

StartsWith(s, p) == Len(s) >= Len(p) /\ SubSeq(s, 1, Len(p)) = p

\* str.find: index (from 0) of the first occurrence of sub in s, -1 if none.
Find(s, sub) ==
  LET hits == {i \in 0..(Len(s) - Len(sub)) : SubSeq(s, i + 1, i + Len(sub)) = sub}
  IN IF hits = {} THEN -1 ELSE CHOOSE i \in hits : \A j \in hits : i <= j

\* s[start:] and s[start:stop] of Python, for 0 <= start.
Slice(s, start, stop) ==
  IF stop <= start \/ start >= Len(s) THEN <<>>
  ELSE SubSeq(s, start + 1, IF stop > Len(s) THEN Len(s) ELSE stop)

RECURSIVE StrOfNat(_)
StrOfNat(n) ==
  IF n < 10 THEN <<DigitChars[n + 1]>>
  ELSE Append(StrOfNat(n \div 10), DigitChars[(n % 10) + 1])

\* Mutant: f'{step}', the number is not padded.
NoZeroPad(s, width) == s

RECURSIVE ZeroPad(_, _)
ZeroPad(s, width) == IF Len(s) >= width THEN s ELSE ZeroPad(<<"0">> \o s, width)

ValueError == -1

\* int(s) for a string without sign, blanks or underscores.
RECURSIVE DigitsValue(_)
DigitsValue(s) ==
  IF s = <<>> THEN 0
  ELSE 10 * DigitsValue(SubSeq(s, 1, Len(s) - 1)) + DigitVal(s[Len(s)])

IntOf(s) == IF s # <<>> /\ AllDigits(s) THEN DigitsValue(s) ELSE ValueError

\* ------------------------------------------------------------------ naming

_CHECKPOINT_DIR_PREFIX == <<"c", "h", "e", "c", "k", "p", "o", "i", "n", "t", "_">>

_TMP_DIR_KEYWORD == <<".", "t", "m", "p">>

\* Field width of f'{step:08}'.
PadWidth == 8

\* re.compile(r'checkpoint_[\d]+$').match(x)
_is_checkpoint_dir(x) ==
  /\ StartsWith(x, _CHECKPOINT_DIR_PREFIX)
  /\ Len(x) > Len(_CHECKPOINT_DIR_PREFIX)
  /\ AllDigits(Slice(x, Len(_CHECKPOINT_DIR_PREFIX), Len(x)))

\* re.compile(r'checkpoint_[\d]+.tmp_[\d]+$').match(x): the '.' of the pattern
\* is unescaped and matches any one character.
_is_tmp_checkpoint_dir(x) ==
  /\ StartsWith(x, _CHECKPOINT_DIR_PREFIX)
  /\ \E k \in 1..Len(x) :
       LET a == Len(_CHECKPOINT_DIR_PREFIX)
           rest == Slice(x, a + k + 1, Len(x))
       IN /\ Len(x) >= a + k + 1 + 4 + 1
          /\ AllDigits(Slice(x, a, a + k))
          /\ StartsWith(rest, <<"t", "m", "p", "_">>)
          /\ AllDigits(Slice(rest, 4, Len(rest)))

\* f'{_CHECKPOINT_DIR_PREFIX}{step:08}' (the name inside checkpoint_dir)
_make_checkpoint_step_dir(step) ==
  _CHECKPOINT_DIR_PREFIX \o ZeroPad(StrOfNat(step), PadWidth)

\* Mutant: the tmp keyword is left out, the save writes under the final name.
MakeTmpDirWithoutKeyword(step) ==
  _CHECKPOINT_DIR_PREFIX \o ZeroPad(StrOfNat(step), PadWidth)

\* f'{_CHECKPOINT_DIR_PREFIX}{step:08}{_TMP_DIR_KEYWORD}'
_make_tmp_checkpoint_dir(step) ==
  _CHECKPOINT_DIR_PREFIX \o ZeroPad(StrOfNat(step), PadWidth) \o _TMP_DIR_KEYWORD

\* Mutant: the tmp keyword is not looked for.
GetStepIgnoringTmp(checkpoint_dir) ==
  IntOf(Slice(checkpoint_dir, Len(_CHECKPOINT_DIR_PREFIX), Len(checkpoint_dir)))

_get_step_from_checkpoint_dirname(checkpoint_dir) ==
  IF Find(checkpoint_dir, _TMP_DIR_KEYWORD) >= 0
  THEN IntOf(Slice(checkpoint_dir, Len(_CHECKPOINT_DIR_PREFIX),
                   Find(checkpoint_dir, _TMP_DIR_KEYWORD)))
  ELSE IntOf(Slice(checkpoint_dir, Len(_CHECKPOINT_DIR_PREFIX), Len(checkpoint_dir)))

\* ----------------------------------------------- flax.training.checkpoints

\* str.rsplit('_', 1)[-1]
RSplitLast(s) ==
  LET us == {i \in 1..Len(s) : s[i] = "_"}
  IN IF us = {} THEN s
     ELSE SubSeq(s, (CHOOSE i \in us : \A j \in us : j <= i) + 1, Len(s))

\* Number of leading digits of s.
DigitRun(s) ==
  LET ks == {k \in 0..Len(s) : AllDigits(SubSeq(s, 1, k))}
  IN CHOOSE k \in ks : \A j \in ks : j <= k

\* Sort key of flax's natural_sort for a name 'checkpoint_<digits><rest>': the
\* number, then the text after it (a '.' that follows the digits belongs to
\* the number, as in '10.').
NaturalKey(n) ==
  LET after == Slice(n, Len(_CHECKPOINT_DIR_PREFIX), Len(n))
      k == DigitRun(after)
      tail == Slice(after, k, Len(after))
  IN <<IF k = 0 THEN -1 ELSE DigitsValue(SubSeq(after, 1, k)),
       IF k > 0 /\ tail # <<>> /\ Head(tail) = "." THEN Tail(tail) ELSE tail>>

NaturalLess(a, b) ==
  \/ NaturalKey(a)[1] < NaturalKey(b)[1]
  \/ NaturalKey(a)[1] = NaturalKey(b)[1] /\ StrLess(NaturalKey(a)[2], NaturalKey(b)[2])

\* flax's latest_checkpoint(ckpt_dir, prefix='checkpoint_'): glob of
\* 'checkpoint_*', natural sort, 'checkpoint_tmp' dropped, last one or None
\* (None is the empty path).
FlaxLatestCheckpoint(names) ==
  LET files == {n \in names : StartsWith(n, _CHECKPOINT_DIR_PREFIX)
                              /\ n # _CHECKPOINT_DIR_PREFIX \o <<"t", "m", "p">>}
  IN IF files = {} THEN <<>>
     ELSE CHOOSE x \in files : \A y \in files : ~NaturalLess(x, y)

\* latest_checkpoint(checkpoint_dir), given the entries of the directory.
latest_checkpoint(exists, names) ==
  IF exists THEN FlaxLatestCheckpoint(names) ELSE <<>>

\* flax's file name of a step: f'{prefix}{step}'
FlaxCheckpointPath(step) == _CHECKPOINT_DIR_PREFIX \o StrOfNat(step)

\* flax's save_checkpoint(ckpt_dir, target, step, keep, overwrite) raises
\* InvalidCheckpointError: without overwrite, a checkpoint of this or of a
\* later step exists.
FlaxSaveRaises(dir, step, overwrite) ==
  LET path == FlaxCheckpointPath(step)
      files == {n \in DOMAIN dir : StartsWith(n, _CHECKPOINT_DIR_PREFIX)}
  IN ~overwrite /\ (path \in files \/ \E n \in files : NaturalLess(path, n))

\* flax's save_checkpoint: the directory after the file of `step` is written,
\* newer files are removed (overwrite) and all but the last `keep` are pruned.
FlaxSaveCheckpoint(dir, target, step, keep, overwrite) ==
  LET path == FlaxCheckpointPath(step)
      files == {n \in DOMAIN dir : StartsWith(n, _CHECKPOINT_DIR_PREFIX)} \cup {path}
      newer == {n \in files : NaturalLess(path, n)}
      kept == IF overwrite THEN files \ newer ELSE files
      old == {n \in kept : Cardinality({m \in kept : NaturalLess(n, m)}) >= keep}
      gone == (files \ kept) \cup old
  IN [n \in ((DOMAIN dir) \cup {path}) \ gone |->
        IF n = path THEN target ELSE dir[n]]

\* ------------------------------------------------------------- train states

\* Leaf addresses of the TrainState of the job (flattened nested prefix names).
Leaves == {"step", "mdl_vars.w"}

\* A sharded TrainState: every leaf is a global array holding one shard per
\* process; a shard is <<v>>, and <<>> where nothing was ever written.
TrainState(step, val) ==
  [l \in Leaves |-> [q \in Procs |-> <<IF l = "step" THEN step ELSE val>>]]

\* The freshly initialised state a caller passes to restore_checkpoint.
InitialTrainState == [l \in Leaves |-> [q \in Procs |-> <<0>>]]

\* An unsharded leaf: an array of rank ndim whose entries all equal v.
Array(ndim, v) == [ndim |-> ndim, v |-> v]

\* A TrainState of the pmap path: step and every other leaf carry ndim leading
\* replica axes (0: unreplicated, 1: replicated over the local devices).
PmapTrainState(step, val, ndim) ==
  [l \in Leaves |-> Array(ndim, IF l = "step" THEN step ELSE val)]

\* jax_utils.unreplicate: x[0] of every leaf.
Unreplicate(state) == [l \in DOMAIN state |-> Array(state[l].ndim - 1, state[l].v)]

\* class CheckpointType
CheckpointType == {"flax", "persistence"}

\* A job that passes CheckpointType.FLAX and, to the sharded restore, a
\* TrainState whose step is a scalar.
DefaultArgs == [checkpoint_type |-> {"flax"}, ndim |-> {0}]

\* The state the i-th call of the script saves: its values differ from those
\* of every other call.
SavedState(c) == TrainState(c.step, c.val)

\* Default of save_checkpoint's max_checkpoints.
DefaultMaxCheckpoints == 10

\* The max_checkpoints of a job that keeps as few checkpoints as it can.
MinMaxCheckpoints == 1

\* -------------------------------------------------------------------- state

VARIABLES
  gda,         \* jax.config.jax_parallel_functions_output_gda
  max_checkpoints, \* the max_checkpoints argument the job passes to every save
  ev,          \* the evaluation job polling the directory (eval.py)
  sev,         \* the sharded evaluation job: the polling loop of each process
  extract,     \* the Structural Key Extractor: its argument and its result
  naming,      \* the directory naming functions: their arguments and results
  job_args,    \* the checkpoint_type values and step ranks the job passes
  dir0,        \* the base directory when the job started: <<exists, names>>
  baseExists,  \* tf.io.gfile.exists(checkpoint_dir)
  fs,          \* entries of checkpoint_dir: name -> [leaf address -> shards]
  script,      \* the calls issued so far, the same on every process
  ci,          \* per process: index in script of its current (or last) call
  pc,          \* per process: position inside the current call
  lst,         \* per process: checkpoint_dirnames, its listing of the directory
  pending,     \* per process: leaves whose asynchronous write/read is running
  rdir,        \* per process: checkpoint_step_dir resolved by restore
  ret,         \* per process: the TrainState being restored / returned
  res,         \* per process: outcome of its last call that ended
  bars,        \* per process: tags of the barriers invoked in the current call
  insync       \* per process: every peer had returned when the call started

vars == <<gda, max_checkpoints, ev, sev, extract, naming, job_args, dir0, baseExists, fs, script, ci, pc, lst, pending, rdir, ret, res, bars, insync>>

\* The calls a job may issue as its i-th call.
SaveCalls(i) ==
  [op : {"save"}, step : 0..MaxStep, overwrite : BOOLEAN, rstep : {<<>>},
   val : {10 + i}, unreplicate : {FALSE}, ndim : {0},
   checkpoint_type : job_args.checkpoint_type]

RestoreCalls(i) ==
  [op : {"restore"}, step : {0}, overwrite : {FALSE},
   rstep : {<<>>} \cup {<<n>> : n \in 0..MaxStep},
   val : {10 + i}, unreplicate : {FALSE}, ndim : job_args.ndim,
   checkpoint_type : job_args.checkpoint_type]

\* The calls of a pmap job: train_state.step has rank ndim.
PmapSaveCalls(i) ==
  [op : {"save"}, step : 0..MaxStep, overwrite : BOOLEAN, rstep : {<<>>},
   val : {10 + i}, unreplicate : BOOLEAN, ndim : 0..2,
   checkpoint_type : job_args.checkpoint_type]

PmapRestoreCalls(i) ==
  [op : {"restore"}, step : {0}, overwrite : {FALSE},
   rstep : {<<>>} \cup {<<n>> : n \in 0..MaxStep},
   val : {10 + i}, unreplicate : {FALSE}, ndim : 0..1,
   checkpoint_type : job_args.checkpoint_type]

EmptyDir == [l \in {} |-> <<>>]

NoShards == [q \in Procs |-> <<>>]

\* Entries an earlier, interrupted writer may have left in the directory.
ForeignTmpName == _make_checkpoint_step_dir(1) \o <<".", "t", "m", "p", "_", "3">>

\* The tmp directory an interrupted save of step 1 left behind.
LeftoverTmpName == _make_checkpoint_step_dir(1) \o <<".", "t", "m", "p">>

PartialDir == [l \in {"step"} |-> [q \in Procs |-> IF q = 0 THEN <<1>> ELSE <<>>]]

\* The state an earlier run of the job saved at `step`.
EarlierState(step) == TrainState(step, 5)

EarlierFinals(steps) ==
  [n \in {_make_checkpoint_step_dir(k) : k \in steps} |->
     EarlierState(_get_step_from_checkpoint_dirname(n))]

\* The base directory at the start of the job: absent, empty, holding what an
\* interrupted writer left, or holding the checkpoints of an earlier run.
InitDirs ==
  { <<FALSE, [n \in {} |-> EmptyDir]>>,
    <<TRUE, [n \in {} |-> EmptyDir]>>,
    <<TRUE, [n \in {ForeignTmpName} |-> PartialDir]>>,
    <<TRUE, [n \in {LeftoverTmpName} |-> PartialDir]>>,
    <<TRUE, EarlierFinals({0})>>,
    <<TRUE, EarlierFinals({0, 1})>> }

\* The evaluation job: not started, and at its start.
EvalOff ==
  [pc |-> "off", last_checkpoint |-> <<>>, new_checkpoint |-> <<>>,
   loaded |-> <<>>, evaluated |-> FALSE, reloaded |-> FALSE, err |-> "none",
   multi_host_checkpointing |-> FALSE]

EvalStart == [EvalOff EXCEPT !.pc = "e_restore"]

\* The processes of a sharded evaluation job: not started. restored lists the
\* directory each of its restore calls read, <<>> where it returned the state
\* passed in.
SpmdOff ==
  [p \in Procs |->
     [pc |-> "off", last_checkpoint |-> <<>>, new_checkpoint |-> <<>>,
      checkpoint_step_dir |-> <<>>, restored |-> <<>>, err |-> "none"]]

\* No tree: the key extractor has no argument, or has not returned.
NoTree == [kind |-> "none"]

\* The key extractor is not under study.
ExtractOff == [pc |-> "off", state |-> NoTree, nested_names |-> NoTree]

\* The naming functions are not under study.
NamingOff ==
  [pc |-> "off", checkpoint_dir |-> <<>>, step |-> 0, other |-> 0, x |-> <<>>,
   step_dir |-> <<>>, other_dir |-> <<>>, tmp_dir |-> <<>>,
   step_of_dir |-> 0, step_of_tmp |-> 0, step_of_x |-> 0]

Init ==
  /\ gda \in BOOLEAN
  /\ max_checkpoints = DefaultMaxCheckpoints
  /\ ev = EvalOff
  /\ sev = SpmdOff
  /\ job_args = DefaultArgs
  /\ extract = ExtractOff
  /\ naming = NamingOff
  /\ \E d \in InitDirs :
       /\ gda \/ d[2] = [n \in {} |-> EmptyDir]
       /\ baseExists = d[1]
       /\ fs = d[2]
       /\ dir0 = <<d[1], DOMAIN d[2]>>
  /\ script = <<>>
  /\ ci = [p \in Procs |-> 0]
  /\ pc = [p \in Procs |-> "idle"]
  /\ lst = [p \in Procs |-> {}]
  /\ pending = [p \in Procs |-> {}]
  /\ rdir = [p \in Procs |-> <<>>]
  /\ ret = [p \in Procs |-> EmptyDir]
  /\ res = [p \in Procs |-> "none"]
  /\ bars = [p \in Procs |-> <<>>]
  /\ insync = [p \in Procs |-> TRUE]

\* The call process p is executing (or has last executed).
Call(p) == script[ci[p]]

\* --------------------------------------------------------------- file system

\* tf.io.gfile.listdir(checkpoint_dir)
ListDir == DOMAIN fs

\* tf.io.gfile.rmtree of each of the given entries.
RmTrees(dir, names) == [n \in (DOMAIN dir) \ names |-> dir[n]]

\* tf.io.gfile.makedirs(path): creates the directory unless it exists.
MakeDirs(dir, name) ==
  IF name \in DOMAIN dir THEN dir
  ELSE [n \in (DOMAIN dir) \cup {name} |-> IF n = name THEN EmptyDir ELSE dir[n]]

\* _mkdir_path for every leaf name: tf.io.gfile.mkdir(tmp_dir/name).
MkdirLeaves(dir, name, leaves) ==
  [dir EXCEPT ![name] =
     [l \in (DOMAIN dir[name]) \cup leaves |->
        IF l \in DOMAIN dir[name] THEN dir[name][l] ELSE NoShards]]

\* Mutant: only rank 0 writes its shard.
WriteShardRank0Only(dir, name, l, p, shard) ==
  IF p = 0 THEN [dir EXCEPT ![name][l][p] = shard] ELSE dir

\* gda_serialization.async_serialize: process p writes its shard of leaf l.
WriteShard(dir, name, l, p, shard) == [dir EXCEPT ![name][l][p] = shard]

\* tf.io.gfile.rename(src, dst)
Rename(dir, src, dst) ==
  [n \in ((DOMAIN dir) \ {src}) \cup {dst} |-> IF n = dst THEN dir[src] ELSE dir[n]]

\* ------------------------------------------------------------------ helpers

\* A process issues the next call of the script, or extends the script.
IssueWithin(p, c, n) ==
  /\ pc[p] = "idle"
  /\ ci[p] < n
  /\ IF ci[p] < Len(script)
     THEN script[ci[p] + 1] = c /\ UNCHANGED script
     ELSE script' = Append(script, c)
  /\ ci' = [ci EXCEPT ![p] = @ + 1]
  /\ insync' = [insync EXCEPT ![p] =
                  gda => \A q \in Procs \ {p} :
                           \/ ci[q] > ci[p]
                           \/ ci[q] = ci[p] /\ pc[q] = "idle"]
  /\ bars' = [bars EXCEPT ![p] = <<>>]

Issue(p, c) == IssueWithin(p, c, MaxCalls)

NextCalls(p) ==
  IF ci[p] < Len(script) THEN {script[ci[p] + 1]}
  ELSE IF gda THEN SaveCalls(ci[p] + 1) \cup RestoreCalls(ci[p] + 1)
  ELSE PmapSaveCalls(ci[p] + 1) \cup PmapRestoreCalls(ci[p] + 1)

\* The exception propagates out of the call: the process stops.
Raise(p, e) ==
  /\ pc' = [pc EXCEPT ![p] = "error"]
  /\ res' = [res EXCEPT ![p] = e]

Return(p, r) ==
  /\ pc' = [pc EXCEPT ![p] = "idle"]
  /\ res' = [res EXCEPT ![p] = r]

Goto(p, l) == pc' = [pc EXCEPT ![p] = l] /\ UNCHANGED res

\* py_utils.sync_global_devices(name): the process arrives at the barrier.
SyncGlobalDevices(p, l, tag) ==
  /\ pc' = [pc EXCEPT ![p] = l]
  /\ bars' = [bars EXCEPT ![p] = Append(@, tag)]
  /\ UNCHANGED res

FinalDirnames(names) ==
  {n \in names : _is_checkpoint_dir(n) /\ ~_is_tmp_checkpoint_dir(n)}

\* Mutant: the test is strict, a save of the latest step is repeated.
SkipsAsStaleStrict(names, step) ==
  /\ {n \in names : _is_checkpoint_dir(n) /\ ~_is_tmp_checkpoint_dir(n)} # {}
  /\ _get_step_from_checkpoint_dirname(
       SortedLast({n \in names : _is_checkpoint_dir(n) /\ ~_is_tmp_checkpoint_dir(n)}))
     > step

\* Lines 322-335: the more-recent-checkpoint test of a save of `step`.
SkipsAsStale(names, step) ==
  /\ FinalDirnames(names) # {}
  /\ _get_step_from_checkpoint_dirname(SortedLast(FinalDirnames(names))) >= step

\* ---------------------------------------------------------- _save_checkpoint_gda

\* save_checkpoint is called; with overwrite=False the directory is listed.
SaveStartWithin(p, n) ==
  \E c \in NextCalls(p) :
    /\ gda
    /\ c.op = "save"
    /\ IssueWithin(p, c, n)
    /\ ret' = [ret EXCEPT ![p] = EmptyDir]
    /\ IF c.overwrite
       THEN Goto(p, "s_mktmp") /\ UNCHANGED lst
       ELSE IF baseExists
            THEN Goto(p, "s_del") /\ lst' = [lst EXCEPT ![p] = ListDir]
            ELSE Raise(p, "NotFoundError") /\ UNCHANGED lst
    /\ UNCHANGED <<gda, max_checkpoints, ev, sev, extract, naming, job_args, dir0, baseExists, fs, pending, rdir>>

SaveStart(p) == SaveStartWithin(p, MaxCalls)

\* Mutant: no tmp directory is deleted before the barrier.
SaveDeleteTmpKeepsAll(p) ==
  /\ pc[p] = "s_del"
  /\ SyncGlobalDevices(p, "s_bar1", <<"deletions", <<>>>>)
  /\ UNCHANGED <<gda, max_checkpoints, ev, sev, extract, naming, job_args, dir0, baseExists, fs, script, ci, lst, pending, rdir, ret, insync>>

\* Mutant: the deletions are not followed by a barrier.
SaveDeleteTmpNoBarrier(p) ==
  /\ pc[p] = "s_del"
  /\ fs' = IF p = 0
           THEN RmTrees(fs, {n \in lst[p] : _is_tmp_checkpoint_dir(n)})
           ELSE fs
  /\ Goto(p, "s_stale")
  /\ UNCHANGED <<gda, max_checkpoints, ev, sev, extract, naming, job_args, dir0, baseExists, script, ci, lst, pending, rdir, ret, bars, insync>>

\* Rank 0 deletes the tmp directories of its listing; barrier 1.
SaveDeleteTmp(p) ==
  /\ pc[p] = "s_del"
  /\ fs' = IF p = 0
           THEN RmTrees(fs, {n \in lst[p] : _is_tmp_checkpoint_dir(n)})
           ELSE fs
  /\ SyncGlobalDevices(p, "s_bar1", <<"deletions", <<>>>>)
  /\ UNCHANGED <<gda, max_checkpoints, ev, sev, extract, naming, job_args, dir0, baseExists, script, ci, lst, pending, rdir, ret, insync>>

\* Mutant: the more-recent-checkpoint test never skips the save.
SaveStaleCheckNeverSkips(p) ==
  /\ pc[p] = "s_stale"
  /\ Goto(p, "s_mktmp")
  /\ UNCHANGED <<gda, max_checkpoints, ev, sev, extract, naming, job_args, dir0, baseExists, fs, script, ci, lst, pending, rdir, ret, bars, insync>>

SaveStaleCheck(p) ==
  /\ pc[p] = "s_stale"
  /\ IF SkipsAsStale(lst[p], Call(p).step)
     THEN Return(p, "skipped")
     ELSE Goto(p, "s_mktmp")
  /\ UNCHANGED <<gda, max_checkpoints, ev, sev, extract, naming, job_args, dir0, baseExists, fs, script, ci, lst, pending, rdir, ret, bars, insync>>

\* Rank 0 creates the tmp parent directory; barrier 2.
SaveMakeTmp(p) ==
  /\ pc[p] = "s_mktmp"
  /\ IF p = 0
     THEN /\ fs' = MakeDirs(fs, _make_tmp_checkpoint_dir(Call(p).step))
          /\ baseExists' = TRUE
     ELSE UNCHANGED <<fs, baseExists>>
  /\ UNCHANGED <<gda, max_checkpoints, ev, sev, extract, naming, job_args, dir0>>
  /\ SyncGlobalDevices(p, "s_bar2",
                       <<"creation", _make_tmp_checkpoint_dir(Call(p).step)>>)
  /\ UNCHANGED <<script, ci, lst, pending, rdir, ret, insync>>

\* Every process creates the leaf directories (executor.map of _mkdir_path)
\* and starts one asynchronous write per leaf.
SaveMkdirs(p) ==
  /\ pc[p] = "s_mkdirs"
  /\ LET tmp == _make_tmp_checkpoint_dir(Call(p).step)
     IN IF tmp \in DOMAIN fs
        THEN /\ fs' = MkdirLeaves(fs, tmp, Leaves)
             /\ pending' = [pending EXCEPT ![p] = Leaves]
             /\ Goto(p, "s_write")
        ELSE /\ Raise(p, "NotFoundError")
             /\ UNCHANGED <<fs, pending>>
  /\ UNCHANGED <<gda, max_checkpoints, ev, sev, extract, naming, job_args, dir0, baseExists, script, ci, lst, rdir, ret, bars, insync>>

\* One of the pending writes of p completes.
SaveWriteLeaf(p, l) ==
  /\ pc[p] = "s_write"
  /\ l \in pending[p]
  /\ fs' = WriteShard(fs, _make_tmp_checkpoint_dir(Call(p).step), l, p,
                      SavedState(Call(p))[l][p])
  /\ pending' = [pending EXCEPT ![p] = @ \ {l}]
  /\ UNCHANGED <<gda, max_checkpoints, ev, sev, extract, naming, job_args, dir0, baseExists, script, ci, pc, lst, rdir, ret, res, bars, insync>>

\* Mutant: barrier 3 is entered without awaiting the writes.
SaveNoAwaitWrites(p) ==
  /\ pc[p] = "s_write"
  /\ SyncGlobalDevices(p, "s_bar3",
                       <<"writes", _make_tmp_checkpoint_dir(Call(p).step)>>)
  /\ UNCHANGED <<gda, max_checkpoints, ev, sev, extract, naming, job_args, dir0, baseExists, fs, script, ci, lst, pending, rdir, ret, insync>>

\* asyncio.gather has returned; barrier 3.
SaveAwaitWrites(p) ==
  /\ pc[p] = "s_write"
  /\ pending[p] = {}
  /\ SyncGlobalDevices(p, "s_bar3",
                       <<"writes", _make_tmp_checkpoint_dir(Call(p).step)>>)
  /\ UNCHANGED <<gda, max_checkpoints, ev, sev, extract, naming, job_args, dir0, baseExists, fs, script, ci, lst, pending, rdir, ret, insync>>

\* Rank 0 renames the tmp directory to its final name; the call returns.
SaveRename(p) ==
  /\ pc[p] = "s_rename"
  /\ LET tmp == _make_tmp_checkpoint_dir(Call(p).step)
         final == _make_checkpoint_step_dir(Call(p).step)
     IN IF p # 0
        THEN Return(p, "saved") /\ UNCHANGED fs
        ELSE IF final \in DOMAIN fs
        THEN Raise(p, "AlreadyExistsError") /\ UNCHANGED fs
        ELSE IF tmp \notin DOMAIN fs
        THEN Raise(p, "NotFoundError") /\ UNCHANGED fs
        ELSE Return(p, "saved") /\ fs' = Rename(fs, tmp, final)
  /\ UNCHANGED <<gda, max_checkpoints, ev, sev, extract, naming, job_args, dir0, baseExists, script, ci, lst, pending, rdir, ret, bars, insync>>

\* ------------------------------------------------------- _restore_checkpoint_gda

\* Mutant: the step directory is never found missing.
StepDirNeverMissing(d) == FALSE

\* Lines 416-417: not exists(checkpoint_step_dir) or not listdir(checkpoint_step_dir).
StepDirMissing(d) == d \notin DOMAIN fs \/ DOMAIN fs[d] = {}

\* Lines 388-419: the early return, the resolution of the step directory.
RestoreStart(p) ==
  \E c \in NextCalls(p) :
    /\ gda
    /\ c.op = "restore"
    /\ Issue(p, c)
    /\ IF ~baseExists \/ ListDir = {}
       THEN /\ Return(p, "input")
            /\ ret' = [ret EXCEPT ![p] = InitialTrainState]
            /\ UNCHANGED <<lst, rdir, pending>>
       ELSE IF c.rstep = <<>>
       THEN /\ lst' = [lst EXCEPT ![p] = ListDir]
            /\ IF FinalDirnames(ListDir) = {}
               THEN /\ Raise(p, "FileNotFoundError")
                    /\ ret' = [ret EXCEPT ![p] = EmptyDir]
                    /\ UNCHANGED <<rdir, pending>>
               ELSE /\ rdir' = [rdir EXCEPT ![p] =
                          _make_checkpoint_step_dir(
                            _get_step_from_checkpoint_dirname(
                              SortedLast(FinalDirnames(ListDir))))]
                    /\ ret' = [ret EXCEPT ![p] = EmptyDir]
                    /\ pending' = [pending EXCEPT ![p] = Leaves]
                    /\ Goto(p, "r_read")
       ELSE /\ UNCHANGED lst
            /\ ret' = [ret EXCEPT ![p] = EmptyDir]
            /\ LET d == _make_checkpoint_step_dir(c.rstep[1])
               IN IF StepDirMissing(d)
                  THEN Raise(p, "FileNotFoundError") /\ UNCHANGED <<rdir, pending>>
                  ELSE /\ rdir' = [rdir EXCEPT ![p] = d]
                       /\ pending' = [pending EXCEPT ![p] = Leaves]
                       /\ Goto(p, "r_read")
    /\ UNCHANGED <<gda, max_checkpoints, ev, sev, extract, naming, job_args, dir0, baseExists, fs>>

\* Mutant: a leaf missing from the checkpoint keeps the value of the target.
RestoreReadLeafLenient(p, l) ==
  /\ pc[p] = "r_read"
  /\ l \in pending[p]
  /\ ret' = [ret EXCEPT ![p] =
               (l :> IF rdir[p] \in DOMAIN fs /\ l \in DOMAIN fs[rdir[p]]
                     THEN fs[rdir[p]][l]
                     ELSE InitialTrainState[l]) @@ @]
  /\ pending' = [pending EXCEPT ![p] = @ \ {l}]
  /\ UNCHANGED <<gda, max_checkpoints, ev, sev, extract, naming, job_args, dir0, baseExists, fs, script, ci, pc, lst, rdir, res, bars, insync>>

\* gda_serialization.async_deserialize of one leaf completes (or fails).
RestoreReadLeaf(p, l) ==
  /\ pc[p] = "r_read"
  /\ l \in pending[p]
  /\ IF rdir[p] \in DOMAIN fs /\ l \in DOMAIN fs[rdir[p]]
     THEN /\ ret' = [ret EXCEPT ![p] = (l :> fs[rdir[p]][l]) @@ @]
          /\ pending' = [pending EXCEPT ![p] = @ \ {l}]
          /\ UNCHANGED <<pc, res>>
     ELSE /\ Raise(p, "ReadError")
          /\ UNCHANGED <<ret, pending>>
  /\ UNCHANGED <<gda, max_checkpoints, ev, sev, extract, naming, job_args, dir0, baseExists, fs, script, ci, lst, rdir, bars, insync>>

\* Mutant: the restore barrier is entered without awaiting the reads.
RestoreNoAwaitReads(p) ==
  /\ pc[p] = "r_read"
  /\ SyncGlobalDevices(p, "r_bar", <<"restore", rdir[p]>>)
  /\ UNCHANGED <<gda, max_checkpoints, ev, sev, extract, naming, job_args, dir0, baseExists, fs, script, ci, lst, pending, rdir, ret, insync>>

\* Mutant: rank 0 removes the checkpoint directory once it has been read.
RestoreAwaitReadsConsumes(p) ==
  /\ pc[p] = "r_read"
  /\ pending[p] = {}
  /\ pc' = [pc EXCEPT ![p] = "r_bar"]
  /\ bars' = [bars EXCEPT ![p] = Append(@, <<"restore", rdir[p]>>)]
  /\ fs' = IF p = 0 THEN RmTrees(fs, {rdir[p]}) ELSE fs
  /\ UNCHANGED <<gda, max_checkpoints, ev, sev, extract, naming, job_args, dir0, baseExists, script, ci, lst, pending, rdir, ret, res, insync>>

\* All reads are done and the tree is rebuilt; the restore barrier.
RestoreAwaitReads(p) ==
  /\ pc[p] = "r_read"
  /\ pending[p] = {}
  /\ SyncGlobalDevices(p, "r_bar", <<"restore", rdir[p]>>)
  /\ UNCHANGED <<gda, max_checkpoints, ev, sev, extract, naming, job_args, dir0, baseExists, fs, script, ci, lst, pending, rdir, ret, insync>>

\* ------------------------------------------------ the whole-tree (Flax) path

\* Lines 189-198: the more-recent-checkpoint test of _save_checkpoint_flax;
\* <<"ValueError">> when int() rejects the text after the last '_'.
FlaxSkipsAsStale(exists, names, step) ==
  LET previous_filename == latest_checkpoint(exists, names)
  IN /\ previous_filename # <<>>
     /\ IntOf(RSplitLast(previous_filename)) >= step

FlaxStaleCheckRaises(exists, names) ==
  /\ latest_checkpoint(exists, names) # <<>>
  /\ IntOf(RSplitLast(latest_checkpoint(exists, names))) = ValueError

\* Lines 202-217: the checkpoint_target written for train_state.
CheckpointTarget(state, unreplicate) ==
  [flattened_state |-> IF unreplicate THEN Unreplicate(state) ELSE state,
   str_pytree_state |-> DOMAIN state]

\* save_checkpoint on the pmap path (lines 112-125, 184-223), by the process
\* that writes the checkpoints of the job.
FlaxSave(p) ==
  \E c \in NextCalls(p) :
    /\ ~gda
    /\ p = 0
    /\ c.op = "save"
    /\ Issue(p, c)
    /\ LET state == PmapTrainState(c.step, c.val, c.ndim)
           saved == FlaxSaveCheckpoint(fs, CheckpointTarget(state, c.unreplicate),
                                       c.step, max_checkpoints, c.overwrite)
       IN IF c.ndim > 1
          THEN Raise(p, "ValueError") /\ UNCHANGED <<fs, baseExists>>
          ELSE IF c.checkpoint_type # "flax"
          THEN Raise(p, "ValueError") /\ UNCHANGED <<fs, baseExists>>
          ELSE IF ~c.overwrite /\ FlaxStaleCheckRaises(baseExists, DOMAIN fs)
          THEN Raise(p, "ValueError") /\ UNCHANGED <<fs, baseExists>>
          ELSE IF ~c.overwrite /\ FlaxSkipsAsStale(baseExists, DOMAIN fs, c.step)
          THEN Return(p, "skipped") /\ UNCHANGED <<fs, baseExists>>
          ELSE IF c.unreplicate /\ c.ndim = 0
          THEN Raise(p, "IndexError") /\ UNCHANGED <<fs, baseExists>>
          ELSE IF FlaxSaveRaises(fs, c.step, c.overwrite)
          THEN Raise(p, "InvalidCheckpointError") /\ baseExists' = TRUE /\ UNCHANGED fs
          ELSE Return(p, "saved") /\ baseExists' = TRUE /\ fs' = saved
    /\ ret' = [ret EXCEPT ![p] = EmptyDir]
    /\ UNCHANGED <<gda, max_checkpoints, ev, sev, extract, naming, job_args, dir0, lst, pending, rdir>>

\* restore_checkpoint on the pmap path (lines 174-181, 226-247).
FlaxRestore(p) ==
  \E c \in NextCalls(p) :
    /\ ~gda
    /\ p = 0
    /\ c.op = "restore"
    /\ Issue(p, c)
    /\ LET train_state == PmapTrainState(0, 0, c.ndim)
           path == IF c.rstep # <<>> THEN FlaxCheckpointPath(c.rstep[1])
                   ELSE latest_checkpoint(baseExists, DOMAIN fs)
       IN IF c.ndim # 0
          THEN Raise(p, "ValueError") /\ ret' = [ret EXCEPT ![p] = EmptyDir]
          ELSE IF c.checkpoint_type # "flax"
          THEN Raise(p, "ValueError") /\ ret' = [ret EXCEPT ![p] = EmptyDir]
          ELSE IF c.rstep # <<>> /\ path \notin DOMAIN fs
          THEN Raise(p, "ValueError") /\ ret' = [ret EXCEPT ![p] = EmptyDir]
          ELSE IF path = <<>>
          THEN Return(p, "input") /\ ret' = [ret EXCEPT ![p] = train_state]
          ELSE IF fs[path].str_pytree_state # DOMAIN train_state
          THEN Raise(p, "ValueError") /\ ret' = [ret EXCEPT ![p] = EmptyDir]
          ELSE /\ Return(p, "restored")
               /\ ret' = [ret EXCEPT ![p] = fs[path].flattened_state]
    /\ UNCHANGED <<gda, max_checkpoints, ev, sev, extract, naming, job_args, dir0, baseExists, fs, lst, pending, rdir>>

\* ------------------------------------------------------------------ barrier

BarrierPcs == {"s_bar1", "s_bar2", "s_bar3", "r_bar"}

\* Where a process continues once the barrier lets it go.
AfterBarrier(l) ==
  CASE l = "s_bar1" -> "s_stale"
    [] l = "s_bar2" -> "s_mkdirs"
    [] l = "s_bar3" -> "s_rename"
    [] l = "r_bar" -> "idle"

\* Every process of the job has called sync_global_devices with the same name.
BarrierRelease ==
  /\ \A p \in Procs : pc[p] \in BarrierPcs
  /\ \A p \in Procs : bars[p][Len(bars[p])] = bars[0][Len(bars[0])]
  /\ pc' = [p \in Procs |-> AfterBarrier(pc[p])]
  /\ res' = [p \in Procs |-> IF pc[p] = "r_bar" THEN "restored" ELSE res[p]]
  /\ UNCHANGED <<gda, max_checkpoints, ev, sev, extract, naming, job_args, dir0, baseExists, fs, script, ci, lst, pending, rdir, ret, bars, insync>>

Next ==
  \/ \E p \in Procs : SaveStart(p)
  \/ \E p \in Procs : SaveDeleteTmp(p)
  \/ \E p \in Procs : SaveStaleCheck(p)
  \/ \E p \in Procs : SaveMakeTmp(p)
  \/ \E p \in Procs : SaveMkdirs(p)
  \/ \E p \in Procs, l \in Leaves : SaveWriteLeaf(p, l)
  \/ \E p \in Procs : SaveAwaitWrites(p)
  \/ \E p \in Procs : SaveRename(p)
  \/ \E p \in Procs : RestoreStart(p)
  \/ \E p \in Procs, l \in Leaves : RestoreReadLeaf(p, l)
  \/ \E p \in Procs : RestoreAwaitReads(p)
  \/ BarrierRelease
  \/ \E p \in Procs : FlaxSave(p)
  \/ \E p \in Procs : FlaxRestore(p)

Spec == Init /\ [][Next]_vars

\* A sharded job of save calls into a directory that holds the checkpoint of
\* step 1 of an earlier run and what an interrupted writer left.
StaleInit ==
  /\ gda = TRUE
  /\ max_checkpoints = DefaultMaxCheckpoints
  /\ ev = EvalOff
  /\ sev = SpmdOff
  /\ job_args = DefaultArgs
  /\ extract = ExtractOff
  /\ naming = NamingOff
  /\ baseExists = TRUE
  /\ fs = (ForeignTmpName :> PartialDir) @@ EarlierFinals({1})
  /\ dir0 = <<TRUE, DOMAIN fs>>
  /\ script = <<>>
  /\ ci = [p \in Procs |-> 0]
  /\ pc = [p \in Procs |-> "idle"]
  /\ lst = [p \in Procs |-> {}]
  /\ pending = [p \in Procs |-> {}]
  /\ rdir = [p \in Procs |-> <<>>]
  /\ ret = [p \in Procs |-> EmptyDir]
  /\ res = [p \in Procs |-> "none"]
  /\ bars = [p \in Procs |-> <<>>]
  /\ insync = [p \in Procs |-> TRUE]

StaleNext ==
  \/ \E p \in Procs : SaveStart(p)
  \/ \E p \in Procs : SaveDeleteTmp(p)
  \/ \E p \in Procs : SaveStaleCheck(p)
  \/ \E p \in Procs : SaveMakeTmp(p)
  \/ \E p \in Procs : SaveMkdirs(p)
  \/ \E p \in Procs, l \in Leaves : SaveWriteLeaf(p, l)
  \/ \E p \in Procs : SaveAwaitWrites(p)
  \/ \E p \in Procs : SaveRename(p)
  \/ BarrierRelease

StaleSpec == StaleInit /\ [][StaleNext]_vars

\* A job that passes either checkpoint type and, to the sharded restore, a
\* step of any rank up to MaxNdim.
MaxNdim == 1

ArgsInit ==
  /\ gda \in BOOLEAN
  /\ max_checkpoints = DefaultMaxCheckpoints
  /\ ev = EvalOff
  /\ sev = SpmdOff
  /\ extract = ExtractOff
  /\ naming = NamingOff
  /\ job_args = [checkpoint_type |-> CheckpointType, ndim |-> 0..MaxNdim]
  /\ \E d \in InitDirs :
       /\ gda \/ d[2] = [n \in {} |-> EmptyDir]
       /\ baseExists = d[1]
       /\ fs = d[2]
       /\ dir0 = <<d[1], DOMAIN d[2]>>
  /\ script = <<>>
  /\ ci = [p \in Procs |-> 0]
  /\ pc = [p \in Procs |-> "idle"]
  /\ lst = [p \in Procs |-> {}]
  /\ pending = [p \in Procs |-> {}]
  /\ rdir = [p \in Procs |-> <<>>]
  /\ ret = [p \in Procs |-> EmptyDir]
  /\ res = [p \in Procs |-> "none"]
  /\ bars = [p \in Procs |-> <<>>]
  /\ insync = [p \in Procs |-> TRUE]

ArgsSpec == ArgsInit /\ [][Next]_vars

\* A sharded job of MaxSaves save calls into a directory that starts empty.
SavesInit == Init /\ gda /\ dir0 = <<TRUE, {}>>

SavesNext ==
  \/ \E p \in Procs : SaveStartWithin(p, MaxSaves)
  \/ \E p \in Procs : SaveDeleteTmp(p)
  \/ \E p \in Procs : SaveStaleCheck(p)
  \/ \E p \in Procs : SaveMakeTmp(p)
  \/ \E p \in Procs : SaveMkdirs(p)
  \/ \E p \in Procs, l \in Leaves : SaveWriteLeaf(p, l)
  \/ \E p \in Procs : SaveAwaitWrites(p)
  \/ \E p \in Procs : SaveRename(p)
  \/ BarrierRelease

SavesSpec == SavesInit /\ [][SavesNext]_vars

\* Leaf addresses of the TrainState an earlier version of the job saved: the
\* same, one leaf fewer, one leaf renamed, one leaf more.
FewerLeaves == {"step"}

RenamedLeaves == {"step", "mdl_vars.v"}

MoreLeaves == {"step", "mdl_vars.w", "mdl_vars.b"}

EarlierStructures == {Leaves, FewerLeaves, RenamedLeaves, MoreLeaves}

\* The checkpoint of step 0 that version saved, on either path.
EarlierShardedDir(leaves) ==
  [n \in {_make_checkpoint_step_dir(0)} |->
     [l \in leaves |-> [q \in Procs |-> <<IF l = "step" THEN 0 ELSE 5>>]]]

EarlierFlaxDir(leaves) ==
  [n \in {FlaxCheckpointPath(0)} |->
     CheckpointTarget([l \in leaves |-> Array(0, IF l = "step" THEN 0 ELSE 5)],
                      FALSE)]

\* A job that only restores, from a checkpoint an earlier version saved.
StructInit ==
  /\ gda \in BOOLEAN
  /\ max_checkpoints = DefaultMaxCheckpoints
  /\ ev = EvalOff
  /\ sev = SpmdOff
  /\ job_args = DefaultArgs
  /\ extract = ExtractOff
  /\ naming = NamingOff
  /\ \E leaves \in EarlierStructures :
       fs = IF gda THEN EarlierShardedDir(leaves) ELSE EarlierFlaxDir(leaves)
  /\ baseExists = TRUE
  /\ dir0 = <<TRUE, DOMAIN fs>>
  /\ script = <<>>
  /\ ci = [p \in Procs |-> 0]
  /\ pc = [p \in Procs |-> "idle"]
  /\ lst = [p \in Procs |-> {}]
  /\ pending = [p \in Procs |-> {}]
  /\ rdir = [p \in Procs |-> <<>>]
  /\ ret = [p \in Procs |-> EmptyDir]
  /\ res = [p \in Procs |-> "none"]
  /\ bars = [p \in Procs |-> <<>>]
  /\ insync = [p \in Procs |-> TRUE]

StructNext ==
  \/ \E p \in Procs : RestoreStart(p)
  \/ \E p \in Procs, l \in Leaves : RestoreReadLeaf(p, l)
  \/ \E p \in Procs : RestoreAwaitReads(p)
  \/ BarrierRelease
  \/ \E p \in Procs : FlaxRestore(p)

StructSpec == StructInit /\ [][StructNext]_vars

\* What a save of step 1 by a version of the job that was interrupted during
\* its writes left under the tmp name: the leaf directories of that version,
\* with the shards rank 0 had written.
LeftoverDir(leaves) ==
  [n \in {LeftoverTmpName} |->
     [l \in leaves |->
        [q \in Procs |-> IF q = 0 THEN <<IF l = "step" THEN 1 ELSE 5>> ELSE <<>>]]]

\* A sharded job of save calls into a directory that holds such a leftover.
LeftoverInit ==
  /\ gda = TRUE
  /\ max_checkpoints = DefaultMaxCheckpoints
  /\ ev = EvalOff
  /\ sev = SpmdOff
  /\ job_args = DefaultArgs
  /\ extract = ExtractOff
  /\ naming = NamingOff
  /\ \E leaves \in EarlierStructures : fs = LeftoverDir(leaves)
  /\ baseExists = TRUE
  /\ dir0 = <<TRUE, DOMAIN fs>>
  /\ script = <<>>
  /\ ci = [p \in Procs |-> 0]
  /\ pc = [p \in Procs |-> "idle"]
  /\ lst = [p \in Procs |-> {}]
  /\ pending = [p \in Procs |-> {}]
  /\ rdir = [p \in Procs |-> <<>>]
  /\ ret = [p \in Procs |-> EmptyDir]
  /\ res = [p \in Procs |-> "none"]
  /\ bars = [p \in Procs |-> <<>>]
  /\ insync = [p \in Procs |-> TRUE]

LeftoverSpec == LeftoverInit /\ [][StaleNext]_vars

\* A job that only saves, with max_checkpoints = MinMaxCheckpoints, into a
\* directory that starts empty.
RetentionInit ==
  /\ gda \in BOOLEAN
  /\ max_checkpoints = MinMaxCheckpoints
  /\ ev = EvalOff
  /\ sev = SpmdOff
  /\ job_args = DefaultArgs
  /\ extract = ExtractOff
  /\ naming = NamingOff
  /\ baseExists = TRUE
  /\ fs = [n \in {} |-> EmptyDir]
  /\ dir0 = <<TRUE, {}>>
  /\ script = <<>>
  /\ ci = [p \in Procs |-> 0]
  /\ pc = [p \in Procs |-> "idle"]
  /\ lst = [p \in Procs |-> {}]
  /\ pending = [p \in Procs |-> {}]
  /\ rdir = [p \in Procs |-> <<>>]
  /\ ret = [p \in Procs |-> EmptyDir]
  /\ res = [p \in Procs |-> "none"]
  /\ bars = [p \in Procs |-> <<>>]
  /\ insync = [p \in Procs |-> TRUE]

RetentionNext ==
  \/ \E p \in Procs : SaveStart(p)
  \/ \E p \in Procs : SaveDeleteTmp(p)
  \/ \E p \in Procs : SaveStaleCheck(p)
  \/ \E p \in Procs : SaveMakeTmp(p)
  \/ \E p \in Procs : SaveMkdirs(p)
  \/ \E p \in Procs, l \in Leaves : SaveWriteLeaf(p, l)
  \/ \E p \in Procs : SaveAwaitWrites(p)
  \/ \E p \in Procs : SaveRename(p)
  \/ BarrierRelease
  \/ \E p \in Procs : FlaxSave(p)

RetentionSpec == RetentionInit /\ [][RetentionNext]_vars

\* ------------------------------------------------- the evaluation job (eval.py)

\* model_p.train.save_interval_steps and model_p.train.num_train_steps.
save_interval_steps == 1

num_train_steps == 2

\* Everything but the evaluation job.
trainerVars ==
  <<gda, max_checkpoints, sev, extract, naming, job_args, dir0, baseExists, fs, script, ci, pc, lst, pending,
    rdir, ret, res, bars, insync>>

\* restore_checkpoint(model_states, checkpoint_dir) with the step omitted, as
\* the evaluation job calls it: the exception it raises ("none": it returns)
\* and the checkpoint it loads (<<>>: the state passed in is returned).
EvalRestoreRaises ==
  /\ gda
  /\ baseExists /\ DOMAIN fs # {}
  /\ FinalDirnames(DOMAIN fs) = {}

EvalRestoreLoads ==
  IF gda
  THEN IF ~baseExists \/ DOMAIN fs = {}
       THEN <<>>
       ELSE _make_checkpoint_step_dir(
              _get_step_from_checkpoint_dirname(SortedLast(FinalDirnames(DOMAIN fs))))
  ELSE latest_checkpoint(baseExists, DOMAIN fs)

\* The entries of the directory the evaluation job polls, checkpoint_dir.
\* restore_checkpoint reads checkpoint_task_dir, which is checkpoint_dir
\* itself, or with multi_host_checkpointing its subdirectory
\* f'{jax.process_index():03d}': checkpoint_dir then holds one such
\* subdirectory per process.
PolledNames ==
  IF ev.multi_host_checkpointing
  THEN {ZeroPad(StrOfNat(p), 3) : p \in Procs}
  ELSE DOMAIN fs

\* The restore before the loop.
EvalInitialRestore ==
  /\ ev.pc = "e_restore"
  /\ ev' = IF EvalRestoreRaises
           THEN [ev EXCEPT !.pc = "failed", !.err = "FileNotFoundError"]
           ELSE [ev EXCEPT !.pc = "e_latest",
                           !.loaded = IF EvalRestoreLoads = <<>> THEN @
                                      ELSE EvalRestoreLoads]
  /\ UNCHANGED trainerVars

\* last_checkpoint = checkpoints.latest_checkpoint(checkpoint_dir)
EvalFirstLatest ==
  /\ ev.pc = "e_latest"
  /\ ev' = [ev EXCEPT !.pc = "e_eval",
                      !.last_checkpoint = latest_checkpoint(baseExists, PolledNames)]
  /\ UNCHANGED trainerVars

\* model_utils.run_eval_loop_over_test_splits
EvalRun ==
  /\ ev.pc = "e_eval"
  /\ ev' = [ev EXCEPT !.pc = "e_test", !.evaluated = TRUE]
  /\ UNCHANGED trainerVars

\* The exit test: int(last_checkpoint.split('_')[-1]) + save_interval_steps
\* >= num_train_steps.
EvalExitTest ==
  /\ ev.pc = "e_test"
  /\ ev' = IF ev.last_checkpoint = <<>>
           THEN [ev EXCEPT !.pc = "e_poll"]
           ELSE IF IntOf(RSplitLast(ev.last_checkpoint)) = ValueError
           THEN [ev EXCEPT !.pc = "raised", !.err = "ValueError"]
           ELSE IF IntOf(RSplitLast(ev.last_checkpoint)) + save_interval_steps
                     >= num_train_steps
           THEN [ev EXCEPT !.pc = "done"]
           ELSE [ev EXCEPT !.pc = "e_poll"]
  /\ UNCHANGED trainerVars

\* new_checkpoint = latest_checkpoint(checkpoint_dir), repeated every minute
\* until it differs from last_checkpoint.
EvalPoll ==
  /\ ev.pc = "e_poll"
  /\ latest_checkpoint(baseExists, PolledNames) # ev.last_checkpoint
  /\ ev' = [ev EXCEPT !.pc = "e_reload",
                      !.new_checkpoint = latest_checkpoint(baseExists, PolledNames)]
  /\ UNCHANGED trainerVars

\* The restore inside the loop; last_checkpoint = new_checkpoint.
EvalReload ==
  /\ ev.pc = "e_reload"
  /\ ev' = IF EvalRestoreRaises
           THEN [ev EXCEPT !.pc = "raised", !.err = "FileNotFoundError"]
           ELSE [ev EXCEPT !.pc = "e_eval",
                           !.loaded = IF EvalRestoreLoads = <<>> THEN @
                                      ELSE EvalRestoreLoads,
                           !.last_checkpoint = ev.new_checkpoint,
                           !.reloaded = TRUE]
  /\ UNCHANGED trainerVars

\* An evaluation job next to a training job that saves checkpoints.
EvalInit ==
  /\ gda \in BOOLEAN
  /\ max_checkpoints = DefaultMaxCheckpoints
  /\ ev = EvalStart
  /\ sev = SpmdOff
  /\ job_args = DefaultArgs
  /\ extract = ExtractOff
  /\ naming = NamingOff
  /\ baseExists = TRUE
  /\ fs = [n \in {} |-> EmptyDir]
  /\ dir0 = <<TRUE, {}>>
  /\ script = <<>>
  /\ ci = [p \in Procs |-> 0]
  /\ pc = [p \in Procs |-> "idle"]
  /\ lst = [p \in Procs |-> {}]
  /\ pending = [p \in Procs |-> {}]
  /\ rdir = [p \in Procs |-> <<>>]
  /\ ret = [p \in Procs |-> EmptyDir]
  /\ res = [p \in Procs |-> "none"]
  /\ bars = [p \in Procs |-> <<>>]
  /\ insync = [p \in Procs |-> TRUE]

EvalNext ==
  \/ \E p \in Procs : SaveStart(p)
  \/ \E p \in Procs : SaveDeleteTmp(p)
  \/ \E p \in Procs : SaveStaleCheck(p)
  \/ \E p \in Procs : SaveMakeTmp(p)
  \/ \E p \in Procs : SaveMkdirs(p)
  \/ \E p \in Procs, l \in Leaves : SaveWriteLeaf(p, l)
  \/ \E p \in Procs : SaveAwaitWrites(p)
  \/ \E p \in Procs : SaveRename(p)
  \/ BarrierRelease
  \/ \E p \in Procs : FlaxSave(p)
  \/ EvalInitialRestore
  \/ EvalFirstLatest
  \/ EvalRun
  \/ EvalExitTest
  \/ EvalPoll
  \/ EvalReload

EvalSpec == EvalInit /\ [][EvalNext]_vars

\* The steps of the evaluation job.
EvalJob ==
  \/ EvalInitialRestore
  \/ EvalFirstLatest
  \/ EvalRun
  \/ EvalExitTest
  \/ EvalPoll
  \/ EvalReload

\* ENABLED EvalJob: the evaluation job has a step to take. Everywhere but in
\* the poll it always has; the poll goes on when latest_checkpoint returns
\* something else than last_checkpoint.
EvalJobEnabled ==
  \/ ev.pc \in {"e_restore", "e_latest", "e_eval", "e_test", "e_reload"}
  \/ ev.pc = "e_poll" /\ latest_checkpoint(baseExists, PolledNames) # ev.last_checkpoint

\* The steps process p takes inside a save call, and ENABLED of them: p is
\* inside a save call and not waiting at a barrier.
SaveStep(p) ==
  \/ SaveDeleteTmp(p)
  \/ SaveStaleCheck(p)
  \/ SaveMakeTmp(p)
  \/ SaveMkdirs(p)
  \/ \E l \in Leaves : SaveWriteLeaf(p, l)
  \/ SaveAwaitWrites(p)
  \/ SaveRename(p)

SaveRunPcs == {"s_del", "s_stale", "s_mktmp", "s_mkdirs", "s_write", "s_rename"}

\* Weak fairness of the steps inside a save call, written with their
\* enabling condition, and of the barrier: a process that has entered
\* save_checkpoint runs on until it returns, raises or waits at a barrier, and
\* a barrier every process has arrived at lets them go. When the job issues
\* its next call is left open.
SaveCallsRun ==
  /\ \A p \in Procs :
       []<>(pc[p] \notin SaveRunPcs) \/ []<><<SaveStep(p)>>_vars
  /\ WF_vars(BarrierRelease)

\* Every process issues the same sequence of calls: a call a peer has issued
\* is issued by p once p has returned from its previous one.
SameSequence ==
  \A p \in Procs :
    []<>(~(pc[p] = "idle" /\ ci[p] < Len(script))) \/ []<><<SaveStart(p)>>_vars

\* A sharded job of MaxCalls save calls into a directory that starts empty,
\* every process running.
SaveFairSpec ==
  SavesInit /\ [][StaleNext]_vars /\ SaveCallsRun /\ SameSequence

\* The evaluation job is a running process: the loop goes on while it has a
\* step to take, and the poll wakes up every minute (time.sleep(60)). Weak
\* fairness of EvalJob, with the enabling condition written out for the
\* steps that call latest_checkpoint.
EvalJobRuns ==
  /\ WF_vars(EvalRun)
  /\ WF_vars(EvalExitTest)
  /\ []<>(~EvalJobEnabled) \/ []<><<EvalJob>>_vars

EvalFairSpec == EvalInit /\ [][EvalNext]_vars /\ EvalJobRuns /\ SaveCallsRun

\* A sharded evaluation job (evaluate_spmd_model), with or without
\* multi_host_checkpointing, next to a sharded training job.
SpmdEvalInit ==
  /\ gda = TRUE
  /\ max_checkpoints = DefaultMaxCheckpoints
  /\ \E b \in BOOLEAN : ev = [EvalStart EXCEPT !.multi_host_checkpointing = b]
  /\ sev = SpmdOff
  /\ job_args = DefaultArgs
  /\ extract = ExtractOff
  /\ naming = NamingOff
  /\ baseExists = TRUE
  /\ fs = [n \in {} |-> EmptyDir]
  /\ dir0 = <<TRUE, {}>>
  /\ script = <<>>
  /\ ci = [p \in Procs |-> 0]
  /\ pc = [p \in Procs |-> "idle"]
  /\ lst = [p \in Procs |-> {}]
  /\ pending = [p \in Procs |-> {}]
  /\ rdir = [p \in Procs |-> <<>>]
  /\ ret = [p \in Procs |-> EmptyDir]
  /\ res = [p \in Procs |-> "none"]
  /\ bars = [p \in Procs |-> <<>>]
  /\ insync = [p \in Procs |-> TRUE]

\* The steps of that pair of jobs: the sharded save calls of the trainer and
\* the evaluation loop. The trainer is sharded, so the pmap save has no part.
SpmdEvalNext ==
  \/ \E p \in Procs : SaveStart(p)
  \/ \E p \in Procs : SaveDeleteTmp(p)
  \/ \E p \in Procs : SaveStaleCheck(p)
  \/ \E p \in Procs : SaveMakeTmp(p)
  \/ \E p \in Procs : SaveMkdirs(p)
  \/ \E p \in Procs, l \in Leaves : SaveWriteLeaf(p, l)
  \/ \E p \in Procs : SaveAwaitWrites(p)
  \/ \E p \in Procs : SaveRename(p)
  \/ BarrierRelease
  \/ EvalInitialRestore
  \/ EvalFirstLatest
  \/ EvalRun
  \/ EvalExitTest
  \/ EvalPoll
  \/ EvalReload

SpmdEvalFairSpec ==
  SpmdEvalInit /\ [][SpmdEvalNext]_vars /\ EvalJobRuns /\ SaveCallsRun

\* ---------------------------- the sharded evaluation job, process by process

\* Everything but the sharded evaluation job and the directory.
outsideSpmd ==
  <<gda, max_checkpoints, ev, extract, naming, job_args, dir0, baseExists, script, ci, pc, lst,
    pending, rdir, ret, res, bars, insync>>

\* The training job publishes the checkpoint of a step later than every step
\* in the directory: rank 0's rename at the end of its save.
TrainerPublishes ==
  \E step \in 0..MaxStep :
    /\ \A n \in FinalDirnames(DOMAIN fs) : _get_step_from_checkpoint_dirname(n) < step
    /\ fs' = (_make_checkpoint_step_dir(step) :> TrainState(step, 10 + step)) @@ fs
    /\ UNCHANGED <<sev, outsideSpmd>>

\* restore_checkpoint(partitioned_train_state, checkpoint_task_dir, ...) by
\* process p, before the loop and inside it: _restore_checkpoint_gda with the
\* step omitted returns the state passed in, raises, or resolves the latest
\* final directory, reads it and enters the barrier named after it.
SpmdRestore(p) ==
  /\ sev[p].pc \in {"v_restore", "v_reload"}
  /\ LET finals == FinalDirnames(DOMAIN fs)
         dir == _make_checkpoint_step_dir(
                  _get_step_from_checkpoint_dirname(SortedLast(finals)))
     IN sev' = [sev EXCEPT ![p] =
          IF ~baseExists \/ DOMAIN fs = {}
          THEN [@ EXCEPT !.pc = IF @ = "v_restore" THEN "v_latest" ELSE "v_eval",
                         !.restored = Append(@, <<>>),
                         !.last_checkpoint = IF sev[p].pc = "v_reload"
                                             THEN sev[p].new_checkpoint ELSE @]
          ELSE IF finals = {}
          THEN [@ EXCEPT !.pc = "raised", !.err = "FileNotFoundError"]
          ELSE [@ EXCEPT !.pc = IF @ = "v_restore" THEN "v_bar0" ELSE "v_bar",
                         !.checkpoint_step_dir = dir,
                         !.restored = Append(@, dir)]]
  /\ UNCHANGED <<fs, outsideSpmd>>

\* sync_global_devices(f'Wait for checkpoint restore from {checkpoint_step_dir}
\* to finish.'): every process has entered the barrier of that name. Inside
\* the loop last_checkpoint = new_checkpoint follows.
SpmdBarrierRelease ==
  /\ \A p \in Procs : sev[p].pc \in {"v_bar0", "v_bar"}
  /\ \A p \in Procs : sev[p].checkpoint_step_dir = sev[0].checkpoint_step_dir
  /\ sev' = [p \in Procs |->
               IF sev[p].pc = "v_bar0"
               THEN [sev[p] EXCEPT !.pc = "v_latest"]
               ELSE [sev[p] EXCEPT !.pc = "v_eval",
                                   !.last_checkpoint = sev[p].new_checkpoint]]
  /\ UNCHANGED <<fs, outsideSpmd>>

\* last_checkpoint = checkpoints.latest_checkpoint(checkpoint_dir)
SpmdFirstLatest(p) ==
  /\ sev[p].pc = "v_latest"
  /\ sev' = [sev EXCEPT ![p].pc = "v_eval",
                        ![p].last_checkpoint = latest_checkpoint(baseExists, DOMAIN fs)]
  /\ UNCHANGED <<fs, outsideSpmd>>

\* model_utils.run_eval_loop_over_test_splits
SpmdRun(p) ==
  /\ sev[p].pc = "v_eval"
  /\ sev' = [sev EXCEPT ![p].pc = "v_test"]
  /\ UNCHANGED <<fs, outsideSpmd>>

\* The exit test of process p.
SpmdExitTest(p) ==
  /\ sev[p].pc = "v_test"
  /\ sev' = [sev EXCEPT ![p] =
       IF @.last_checkpoint = <<>>
       THEN [@ EXCEPT !.pc = "v_poll"]
       ELSE IF IntOf(RSplitLast(@.last_checkpoint)) = ValueError
       THEN [@ EXCEPT !.pc = "raised", !.err = "ValueError"]
       ELSE IF IntOf(RSplitLast(@.last_checkpoint)) + save_interval_steps
                 >= num_train_steps
       THEN [@ EXCEPT !.pc = "done"]
       ELSE [@ EXCEPT !.pc = "v_poll"]]
  /\ UNCHANGED <<fs, outsideSpmd>>

\* The poll of process p: it sleeps until latest_checkpoint differs from
\* last_checkpoint.
SpmdPoll(p) ==
  /\ sev[p].pc = "v_poll"
  /\ latest_checkpoint(baseExists, DOMAIN fs) # sev[p].last_checkpoint
  /\ sev' = [sev EXCEPT ![p].pc = "v_reload",
                        ![p].new_checkpoint = latest_checkpoint(baseExists, DOMAIN fs)]
  /\ UNCHANGED <<fs, outsideSpmd>>

\* A sharded evaluation job of several processes on one checkpoint directory,
\* next to a training job that publishes checkpoints.
SpmdPollInit ==
  /\ gda = TRUE
  /\ max_checkpoints = DefaultMaxCheckpoints
  /\ ev = EvalOff
  /\ sev = [p \in Procs |-> [SpmdOff[p] EXCEPT !.pc = "v_restore"]]
  /\ job_args = DefaultArgs
  /\ extract = ExtractOff
  /\ naming = NamingOff
  /\ baseExists = TRUE
  /\ fs \in {[n \in {} |-> EmptyDir], EarlierFinals({0})}
  /\ dir0 = <<TRUE, DOMAIN fs>>
  /\ script = <<>>
  /\ ci = [p \in Procs |-> 0]
  /\ pc = [p \in Procs |-> "idle"]
  /\ lst = [p \in Procs |-> {}]
  /\ pending = [p \in Procs |-> {}]
  /\ rdir = [p \in Procs |-> <<>>]
  /\ ret = [p \in Procs |-> EmptyDir]
  /\ res = [p \in Procs |-> "none"]
  /\ bars = [p \in Procs |-> <<>>]
  /\ insync = [p \in Procs |-> TRUE]

SpmdPollNext ==
  \/ TrainerPublishes
  \/ \E p \in Procs : SpmdRestore(p)
  \/ SpmdBarrierRelease
  \/ \E p \in Procs : SpmdFirstLatest(p)
  \/ \E p \in Procs : SpmdRun(p)
  \/ \E p \in Procs : SpmdExitTest(p)
  \/ \E p \in Procs : SpmdPoll(p)

SpmdPollSpec == SpmdPollInit /\ [][SpmdPollNext]_vars

\* ------------------------------------------- _extract_nested_prefix_names

\* Longest list, and most entries of one mapping, in the trees drawn.
MaxListLen == 2

MaxKeys == 2

\* Mapping keys of the trees drawn: plain ones, one holding the key separator
\* and one holding the left separator followed by a list index.
Keys == { <<"a">>, <<"b">>, <<"a", ".", "b">>, <<"a", "_", "0">> }

key_separator == <<".">>

left_separator == <<"_">>

right_separator == <<>>

\* A tensor.
Leaf == [kind |-> "leaf"]

Dict(m) == [kind |-> "dict", map |-> m]

List(e) == [kind |-> "list", elems |-> e]

KeySets == {S \in SUBSET Keys : S # {} /\ Cardinality(S) <= MaxKeys}

\* Mappings and lists whose entries are drawn from nodes.
Containers(nodes) ==
  UNION { {Dict(m) : m \in [S -> nodes]} : S \in KeySets }
  \cup UNION { {List(e) : e \in [1..n -> nodes]} : n \in 1..MaxListLen }

\* Trees of nesting depth at most one, and at most two.
SubTrees == {Leaf} \cup Containers({Leaf})

Trees == Containers(SubTrees)

\* opt_states: a list of optimizer states.
OptStates == UNION { {List(e) : e \in [1..n -> {Leaf}]} : n \in 0..MaxListLen }

TrainStates ==
  [step : {Leaf}, mdl_vars : Trees, opt_states : OptStates]

\* py_utils.extract_prefixed_keys_from_nested_map(node, prefix, ...): a tree
\* congruent to node whose leaves are the joined key paths; a mapping key is
\* appended as key_separator + key, a list index i as left_separator + i +
\* right_separator.
RECURSIVE extract_prefixed_keys_from_nested_map(_, _)
extract_prefixed_keys_from_nested_map(node, prefix) ==
  CASE node.kind = "dict" ->
         Dict([key \in DOMAIN node.map |->
                extract_prefixed_keys_from_nested_map(
                  node.map[key],
                  IF prefix # <<>> THEN prefix \o key_separator \o key ELSE key)])
    [] node.kind = "list" ->
         List([i \in 1..Len(node.elems) |->
                extract_prefixed_keys_from_nested_map(
                  node.elems[i],
                  prefix \o left_separator \o StrOfNat(i - 1) \o right_separator)])
    [] OTHER -> [kind |-> "name", str |-> prefix]

_extract_nested_prefix_names(state) ==
  [step |-> extract_prefixed_keys_from_nested_map(
              state.step, <<"s", "t", "e", "p">>),
   mdl_vars |-> extract_prefixed_keys_from_nested_map(
                  state.mdl_vars, <<"m", "d", "l", "_", "v", "a", "r", "s">>),
   opt_states |-> extract_prefixed_keys_from_nested_map(
                    state.opt_states,
                    <<"o", "p", "t", "_", "s", "t", "a", "t", "e", "s">>)]

\* jax.tree_util.tree_flatten(tree)[0]: the leaves, mappings in key order.
RECURSIVE tree_flatten(_)
RECURSIVE FlattenEntries(_, _)
RECURSIVE FlattenElems(_)
tree_flatten(node) ==
  CASE node.kind = "dict" -> FlattenEntries(node.map, DOMAIN node.map)
    [] node.kind = "list" -> FlattenElems(node.elems)
    [] OTHER -> <<node>>

FlattenEntries(m, keys) ==
  IF keys = {} THEN <<>>
  ELSE LET k == CHOOSE x \in keys : \A y \in keys : y = x \/ StrLess(x, y)
       IN tree_flatten(m[k]) \o FlattenEntries(m, keys \ {k})

FlattenElems(e) ==
  IF e = <<>> THEN <<>> ELSE tree_flatten(Head(e)) \o FlattenElems(Tail(e))

\* The leaves of a TrainState-shaped tree, in the order of its fields.
FlattenTrainState(t) ==
  tree_flatten(t.step) \o tree_flatten(t.mdl_vars) \o tree_flatten(t.opt_states)

\* nested_names = _extract_nested_prefix_names(train_state)
ExtractNames ==
  /\ extract.pc = "ready"
  /\ extract' = [extract EXCEPT !.pc = "done",
                                !.nested_names = _extract_nested_prefix_names(extract.state)]
  /\ UNCHANGED <<gda, max_checkpoints, ev, sev, naming, job_args, dir0, baseExists, fs, script, ci, pc,
                 lst, pending, rdir, ret, res, bars, insync>>

\* The key extractor alone, applied to one TrainState of the bounded set.
ExtractInit ==
  /\ gda = TRUE
  /\ max_checkpoints = DefaultMaxCheckpoints
  /\ ev = EvalOff
  /\ sev = SpmdOff
  /\ job_args = DefaultArgs
  /\ \E t \in TrainStates :
       extract = [pc |-> "ready", state |-> t, nested_names |-> NoTree]
  /\ naming = NamingOff
  /\ baseExists = TRUE
  /\ fs = [n \in {} |-> EmptyDir]
  /\ dir0 = <<TRUE, {}>>
  /\ script = <<>>
  /\ ci = [p \in Procs |-> 0]
  /\ pc = [p \in Procs |-> "idle"]
  /\ lst = [p \in Procs |-> {}]
  /\ pending = [p \in Procs |-> {}]
  /\ rdir = [p \in Procs |-> <<>>]
  /\ ret = [p \in Procs |-> EmptyDir]
  /\ res = [p \in Procs |-> "none"]
  /\ bars = [p \in Procs |-> <<>>]
  /\ insync = [p \in Procs |-> TRUE]

ExtractNext == ExtractNames

ExtractSpec == ExtractInit /\ [][ExtractNext]_vars

\* ------------------------------------------------------ the naming functions

\* Steps 0..MaxNameStep are drawn, next to the steps around the field width.
MaxNameStep == 10

\* The first step whose number does not fit the field of f'{step:08}'.
StepLimit == 10 ^ PadWidth

NameSteps == (0..MaxNameStep) \cup {5000, StepLimit - 1, StepLimit}

\* checkpoint_dir: the empty path and a relative one.
BaseDirs == { <<>>, <<"d">> }

\* os.path.join(a, b) for a relative b.
os_path_join(a, b) ==
  IF a = <<>> THEN b
  ELSE IF a[Len(a)] = "/" THEN a \o b
  ELSE a \o <<"/">> \o b

\* The name tf.io.gfile.listdir returns for a path: its last component.
ListedName(path) ==
  LET cuts == {i \in 1..Len(path) : path[i] = "/"}
  IN IF cuts = {} THEN path
     ELSE SubSeq(path, (CHOOSE i \in cuts : \A j \in cuts : j <= i) + 1, Len(path))

\* Names a directory may hold: a beginning, digits or none, an ending.
RawPrefixes ==
  { _CHECKPOINT_DIR_PREFIX,
    <<"c", "h", "e", "c", "k", "p", "o", "i", "n", "t", "-">>,
    <<"c", "k", "p", "t", "_">> }

RawDigits == { <<>>, <<"5">>, <<"0", "0", "0", "0", "0", "0", "0", "5">> }

RawSuffixes ==
  { <<>>, _TMP_DIR_KEYWORD, _TMP_DIR_KEYWORD \o <<"_", "1">>,
    _TMP_DIR_KEYWORD \o <<"x">>, <<"x">> }

RawNames == {p \o d \o e : p \in RawPrefixes, d \in RawDigits, e \in RawSuffixes}

\* _make_checkpoint_step_dir(checkpoint_dir, step) and
\* _make_tmp_checkpoint_dir(checkpoint_dir, step) for the steps drawn.
NameStepDirs ==
  /\ naming.pc = "ready"
  /\ naming' = [naming EXCEPT
       !.pc = "named",
       !.step_dir = os_path_join(naming.checkpoint_dir, _make_checkpoint_step_dir(naming.step)),
       !.other_dir = os_path_join(naming.checkpoint_dir, _make_checkpoint_step_dir(naming.other)),
       !.tmp_dir = os_path_join(naming.checkpoint_dir, _make_tmp_checkpoint_dir(naming.step))]
  /\ UNCHANGED <<gda, max_checkpoints, ev, sev, extract, job_args, dir0, baseExists, fs, script,
                 ci, pc, lst, pending, rdir, ret, res, bars, insync>>

\* _get_step_from_checkpoint_dirname of the names the directory lists for the
\* paths made, and of the name x.
ParseStepDirs ==
  /\ naming.pc = "named"
  /\ naming' = [naming EXCEPT
       !.pc = "parsed",
       !.step_of_dir = _get_step_from_checkpoint_dirname(ListedName(naming.step_dir)),
       !.step_of_tmp = _get_step_from_checkpoint_dirname(ListedName(naming.tmp_dir)),
       !.step_of_x = _get_step_from_checkpoint_dirname(naming.x)]
  /\ UNCHANGED <<gda, max_checkpoints, ev, sev, extract, job_args, dir0, baseExists, fs, script,
                 ci, pc, lst, pending, rdir, ret, res, bars, insync>>

\* The naming functions alone, applied to the steps and names drawn.
NamingInit ==
  /\ gda = TRUE
  /\ max_checkpoints = DefaultMaxCheckpoints
  /\ ev = EvalOff
  /\ sev = SpmdOff
  /\ job_args = DefaultArgs
  /\ extract = ExtractOff
  /\ \E d \in BaseDirs, a \in NameSteps, b \in NameSteps, n \in RawNames :
       naming = [NamingOff EXCEPT !.pc = "ready", !.checkpoint_dir = d,
                                  !.step = a, !.other = b, !.x = n]
  /\ baseExists = TRUE
  /\ fs = [n \in {} |-> EmptyDir]
  /\ dir0 = <<TRUE, {}>>
  /\ script = <<>>
  /\ ci = [p \in Procs |-> 0]
  /\ pc = [p \in Procs |-> "idle"]
  /\ lst = [p \in Procs |-> {}]
  /\ pending = [p \in Procs |-> {}]
  /\ rdir = [p \in Procs |-> <<>>]
  /\ ret = [p \in Procs |-> EmptyDir]
  /\ res = [p \in Procs |-> "none"]
  /\ bars = [p \in Procs |-> <<>>]
  /\ insync = [p \in Procs |-> TRUE]

NamingNext ==
  \/ NameStepDirs
  \/ ParseStepDirs

NamingSpec == NamingInit /\ [][NamingNext]_vars

\* ------------------------------------------------------------------- claims

IsSave(c) == c.op = "save"

IsRestore(c) == c.op = "restore"

\* Every leaf directory is there and holds a written shard of every process.
Complete(d) ==
  /\ Leaves \subseteq DOMAIN d
  /\ \A l \in Leaves : \A q \in Procs : d[l][q] # <<>>

\* Process p has ended its second call, a restore (of the saved step, or with
\* the step omitted) that it started after the first call, a save into an empty
\* base directory, had returned on every process.
RoundTripCase(p) ==
  /\ dir0 = <<TRUE, {}>>
  /\ gda \/ p = 0
  /\ Len(script) >= 2
  /\ IsSave(script[1])
  /\ IsRestore(script[2])
  /\ script[2].rstep \in {<<>>, <<script[1].step>>}
  /\ ci[p] = 2
  /\ pc[p] \in {"idle", "error"}
  /\ insync[p]

\* The TrainState the first call saved, as its caller holds it.
RoundTripSaved ==
  IF gda THEN SavedState(script[1])
  ELSE PmapTrainState(script[1].step, script[1].val, script[1].ndim)

\* C1 (as stated): a save of S into an empty base directory followed, once the
\* save has returned on every process, by a restore (into a target restore
\* accepts, one with a scalar step) returns a TrainState equal to S, on the
\* whole-tree path and on the sharded path.
C1_RoundTripAsStated ==
  \A p \in Procs :
    RoundTripCase(p) /\ script[2].ndim = 0 =>
      res[p] = "restored" /\ ret[p] = RoundTripSaved

\* C1 (amended): on the sharded path the restore returns S; on the whole-tree
\* path a restore into an unreplicated target (scalar step) returns S when S
\* was saved with unreplicate=False and the first replica of S when S was
\* saved with unreplicate=True, and a restore into a target with a replicated
\* step raises.
C1_RoundTrip ==
  \A p \in Procs :
    RoundTripCase(p) =>
      IF gda
      THEN res[p] = "restored" /\ ret[p] = SavedState(script[1])
      ELSE IF script[2].ndim = 0
      THEN /\ res[p] = "restored"
           /\ ret[p] = IF script[1].unreplicate
                       THEN Unreplicate(RoundTripSaved)
                       ELSE RoundTripSaved
      ELSE pc[p] = "error" /\ res[p] = "ValueError"

C1_Witness ==
  /\ gda
  /\ \A p \in Procs : RoundTripCase(p) /\ res[p] = "restored"
  /\ script[1].step = 1

\* C2: every entry of the base directory with a final name holds the shard
\* directory of every leaf with the write of every process completed, in every
\* state a concurrent reader can observe.
C2_FinalDirsComplete ==
  gda => \A n \in DOMAIN fs : _is_checkpoint_dir(n) => Complete(fs[n])

\* A final directory is listed while a process of a later save is still
\* writing its shards.
C2_Witness ==
  /\ gda
  /\ \E n \in DOMAIN fs : _is_checkpoint_dir(n)
  /\ \E p \in Procs : pc[p] = "s_write" /\ pending[p] # {} /\ ci[p] = 2
  /\ IsSave(script[1])

\* C3 (as stated): a directory with a temporary name is never returned by
\* latest() and is never the directory restore reads, whatever the base
\* directory holds.
C3_TempDirInvisible ==
  /\ ~_is_tmp_checkpoint_dir(latest_checkpoint(baseExists, DOMAIN fs))
  /\ \A p \in Procs : ~_is_tmp_checkpoint_dir(rdir[p])

\* The steps of the entries of `names` that carry a final name.
FinalSteps(names) ==
  {IntOf(Slice(n, Len(_CHECKPOINT_DIR_PREFIX), Len(n))) :
     n \in {m \in names : _is_checkpoint_dir(m)}}

\* `step` is not strictly greater than the numerically highest final step.
NumericallyStale(names, step) == \E k \in FinalSteps(names) : k >= step

\* Positions of a save that lie after the decision to proceed.
ProceedPcs == {"s_mktmp", "s_bar2", "s_mkdirs", "s_write", "s_bar3", "s_rename"}

InSave(p) == gda /\ ci[p] > 0 /\ IsSave(Call(p))

InRestore(p) == gda /\ ci[p] > 0 /\ IsRestore(Call(p))

\* Process p listed the directory for a save without overwrite and the listing
\* shows a final directory of the requested or of a later step.
StaleAtListing(p) ==
  /\ InSave(p)
  /\ ~Call(p).overwrite
  /\ pc[p] # "error"
  /\ NumericallyStale(lst[p], Call(p).step)

\* A step of process p inside a save that its listing shows to be stale.
StaleSaveStep(p) ==
  /\ gda
  /\ pc'[p] # pc[p] \/ ci'[p] # ci[p]
  /\ ci'[p] > 0
  /\ IsSave(script'[ci'[p]])
  /\ ~script'[ci'[p]].overwrite
  /\ pc'[p] # "error"
  /\ NumericallyStale(lst'[p], script'[ci'[p]].step)

\* No entry is created and no final entry is removed or changed.
FinalsUntouched ==
  /\ DOMAIN fs' \subseteq DOMAIN fs
  /\ \A n \in DOMAIN fs : _is_checkpoint_dir(n) => n \in DOMAIN fs' /\ fs'[n] = fs[n]

\* A whole-tree save call without overwrite, of a step of rank 0 or 1, issued
\* while a final file of that or of a later step exists.
FlaxStaleSaveStep ==
  /\ ~gda
  /\ ci'[0] = ci[0] + 1
  /\ IsSave(script'[ci'[0]])
  /\ ~script'[ci'[0]].overwrite
  /\ script'[ci'[0]].ndim <= 1
  /\ NumericallyStale(DOMAIN fs, script'[ci'[0]].step)

\* C4: with overwrite=False a save whose step is not strictly greater than the
\* numerically highest step of the final directories (as the process lists
\* them) creates no temp and no final directory, leaves every final directory
\* unchanged and returns normally as skipped; on both paths.
C4_StaleSaveSkipped ==
  /\ [](\A p \in Procs :
          StaleAtListing(p) /\ pc[p] \notin {"s_del", "s_bar1", "s_stale"}
            => pc[p] = "idle" /\ res[p] = "skipped")
  /\ [][(\A p \in Procs : StaleSaveStep(p) => FinalsUntouched)
        /\ (FlaxStaleSaveStep
              => fs' = fs /\ pc'[0] = "idle" /\ res'[0] = "skipped")]_vars

\* save(S, step=1) then save(S', step=1), both without overwrite: the second
\* returned as skipped and the final directory of step 1 still holds S.
C4_Witness ==
  /\ gda
  /\ Len(script) = 2
  /\ IsSave(script[1]) /\ IsSave(script[2])
  /\ script[1].step = 1 /\ script[2].step = 1
  /\ ~script[1].overwrite /\ ~script[2].overwrite
  /\ \A p \in Procs : ci[p] = 2 /\ pc[p] = "idle" /\ res[p] = "skipped"
  /\ fs[_make_checkpoint_step_dir(1)] = SavedState(script[1])

\* C5 (as stated): whenever a save that was not skipped has returned normally
\* on a process, the final directory of the requested step exists and is
\* complete.
C5_NoPartialSuccess ==
  \A p \in Procs :
    InSave(p) /\ pc[p] = "idle" /\ res[p] = "saved"
      => /\ _make_checkpoint_step_dir(Call(p).step) \in DOMAIN fs
         /\ Complete(fs[_make_checkpoint_step_dir(Call(p).step)])

\* The barrier names of a save, in the order of the code.
DeletionsTag == <<"deletions", <<>>>>

CreationTag(p) == <<"creation", _make_tmp_checkpoint_dir(Call(p).step)>>

WritesTag(p) == <<"writes", _make_tmp_checkpoint_dir(Call(p).step)>>

ThreeBarriers(p) == <<DeletionsTag, CreationTag(p), WritesTag(p)>>

ExpectedBarriers(p) ==
  IF Call(p).overwrite THEN <<CreationTag(p), WritesTag(p)>> ELSE ThreeBarriers(p)

C7_SameDecision ==
  \A p, q \in Procs :
    InSave(p) /\ ci[q] = ci[p] /\ pc[p] = "idle" /\ res[p] = "skipped"
      => pc[q] \notin ProceedPcs /\ ~(pc[q] = "idle" /\ res[q] = "saved")

\* C8: when rank 0 renames the temp directory of a save to its final name,
\* every process has completed all of its leaf writes of that save: each is in
\* that save call or past it, none of its writes is pending and the temp
\* directory holds its shard of every leaf of the saved TrainState.
C8_RenameAfterAllWrites ==
  /\ InSave(0)
  /\ pc[0] = "s_rename"
  /\ _make_checkpoint_step_dir(Call(0).step) \notin DOMAIN fs
  => LET tmp == _make_tmp_checkpoint_dir(Call(0).step)
     IN /\ tmp \in DOMAIN fs
        /\ Leaves \subseteq DOMAIN fs[tmp]
        /\ \A q \in Procs :
             /\ \A l \in Leaves : fs[tmp][l][q] = SavedState(Call(0))[l][q]
             /\ ci[q] >= ci[0]
             /\ ci[q] = ci[0] => pc[q] \in {"s_rename", "idle"} /\ pending[q] = {}

RestoreTag(p) == <<"restore", rdir[p]>>

RestoreOmittedStart(p) ==
  /\ gda
  /\ ci'[p] = ci[p] + 1
  /\ IsRestore(script'[ci'[p]])
  /\ script'[ci'[p]].rstep = <<>>

\* The final directory of the numerically highest final step is resolved.
ResolvesHighest(p) ==
  /\ pc'[p] = "r_read"
  /\ \E k \in FinalSteps(DOMAIN fs) :
       /\ \A j \in FinalSteps(DOMAIN fs) : j <= k
       /\ rdir'[p] = _make_checkpoint_step_dir(k)
  /\ rdir'[p] \in DOMAIN fs

NotFound(p) == pc'[p] = "error" /\ res'[p] = "FileNotFoundError"

RestoreExplicitStart(p) ==
  /\ gda
  /\ ci'[p] = ci[p] + 1
  /\ IsRestore(script'[ci'[p]])
  /\ script'[ci'[p]].rstep # <<>>

\* The final directory of the step p asks for is missing or empty.
RequestedDirMissing(p) ==
  LET d == _make_checkpoint_step_dir(script'[ci'[p]].rstep[1])
  IN ~baseExists \/ d \notin DOMAIN fs \/ DOMAIN fs[d] = {}

FlaxResolved ==
  IF Call(0).rstep # <<>> THEN FlaxCheckpointPath(Call(0).rstep[1])
  ELSE latest_checkpoint(baseExists, DOMAIN fs)

\* Process 0 is in a whole-tree restore that found a checkpoint file.
FlaxRestoreFound ==
  /\ ~gda /\ ci[0] > 0 /\ IsRestore(Call(0))
  /\ Call(0).ndim = 0
  /\ FlaxResolved \in DOMAIN fs

\* C12: a restore whose target has a leaf that the checkpoint lacks (an extra
\* or a renamed leaf) raises: on the sharded path no process completes its
\* reads or returns, and whatever is returned as restored holds the
\* checkpoint's value of every leaf of the target; on the whole-tree path the
\* call raises ValueError.
C12_MismatchRaises ==
  /\ \A p \in Procs :
       /\ InRestore(p) /\ pc[p] = "r_read"
            => \A l \in Leaves \ pending[p] :
                 l \in DOMAIN fs[rdir[p]] /\ ret[p][l] = fs[rdir[p]][l]
       /\ InRestore(p) /\ (pc[p] = "r_bar" \/ (pc[p] = "idle" /\ res[p] = "restored"))
            => /\ Leaves \subseteq DOMAIN fs[rdir[p]]
               /\ ret[p] = [l \in Leaves |-> fs[rdir[p]][l]]
  /\ FlaxRestoreFound /\ ~(Leaves \subseteq fs[FlaxResolved].str_pytree_state)
       => pc[0] = "error" /\ res[0] = "ValueError"

\* A process of a sharded restore has raised on a leaf the checkpoint lacks.
C12_Witness ==
  \E p \in Procs :
    /\ InRestore(p)
    /\ pc[p] = "error" /\ res[p] = "ReadError"
    /\ rdir[p] \in DOMAIN fs
    /\ ~(Leaves \subseteq DOMAIN fs[rdir[p]])

\* C13 (as stated): a restore returns a restored TrainState only if the
\* structure stored in the checkpoint is exactly that of the target; a
\* checkpoint holding leaves the target does not have is an error too.
C13_ExactStructure ==
  /\ \A p \in Procs :
       InRestore(p) /\ pc[p] = "idle" /\ res[p] = "restored"
         => DOMAIN fs[rdir[p]] = Leaves
  /\ FlaxRestoreFound /\ pc[0] = "idle" /\ res[0] = "restored"
       => fs[FlaxResolved].str_pytree_state = Leaves
\* C14 (as stated): once a save with max_checkpoints = k has succeeded (on the
\* sharded path: rank 0 has renamed and returned), the base directory holds
\* at most k final checkpoints, that of the saved step among them; on the
\* sharded path as on the whole-tree path.
C14_RetentionPruning ==
  ci[0] > 0 /\ IsSave(Call(0)) /\ pc[0] = "idle" /\ res[0] = "saved"
    => /\ Cardinality(FinalSteps(DOMAIN fs)) <= max_checkpoints
       /\ Call(0).step \in FinalSteps(DOMAIN fs)
\* C15 (as stated): latest(baseDir) is the final directory of the greatest
\* step among the final directories of baseDir, and none when baseDir is absent
\* or holds no final directory.
C15_LatestIsGreatestFinal ==
  LET latest == latest_checkpoint(baseExists, DOMAIN fs)
  IN IF ~baseExists \/ FinalSteps(DOMAIN fs) = {}
     THEN latest = <<>>
     ELSE /\ latest \in DOMAIN fs
          /\ _is_checkpoint_dir(latest)
          /\ \A k \in FinalSteps(DOMAIN fs) :
               k <= _get_step_from_checkpoint_dirname(latest)
\* C16 (as stated): when rank 0 has created the temp directory of a save
\* (one that ran the cleanup: overwrite=False) and no shard write of that save
\* has begun, the temp directory is empty: what an interrupted save left under
\* that name was deleted before.
C16_TmpDirStartsEmpty ==
  InSave(0) /\ ~Call(0).overwrite /\ pc[0] = "s_bar2" =>
    /\ _make_tmp_checkpoint_dir(Call(0).step) \in DOMAIN fs
    /\ fs[_make_tmp_checkpoint_dir(Call(0).step)] = EmptyDir
\* No directory is created, deleted or renamed: the base directory has the
\* same entries and every entry has the same leaf directories.
SameDirectories ==
  /\ DOMAIN fs' = DOMAIN fs
  /\ \A n \in DOMAIN fs : DOMAIN fs'[n] = DOMAIN fs[n]

\* C17 (as stated): a step of a sharded save in which rank 0 does not move, a
\* step of a process of another rank, creates, deletes and renames no
\* directory.
C17_OnlyRankZeroTouchesDirs ==
  [][gda /\ pc'[0] = pc[0] /\ ci'[0] = ci[0] /\ pending'[0] = pending[0]
       => SameDirectories]_vars
\* The step of the final checkpoint `name`, none when it is not a final one.
ObservedStep(name) ==
  IF _is_checkpoint_dir(name) THEN {_get_step_from_checkpoint_dirname(name)} ELSE {}

\* C18 (as stated): the evaluation loop is left only after an evaluation, with
\* a checkpoint observed last, whose step plus save_interval_steps has
\* reached num_train_steps.
C18_LoopExit ==
  ev.pc \in {"done", "raised"} =>
    /\ ev.evaluated
    /\ ev.last_checkpoint # <<>>
    /\ \E k \in ObservedStep(ev.last_checkpoint) :
         k + save_interval_steps >= num_train_steps

\* C19 (as stated): after a restore inside the loop the checkpoint that was
\* loaded is the one latest() returned, the one recorded as last observed.
C19_ReloadsObserved ==
  ev.reloaded /\ ev.pc # "raised" => ev.loaded = ev.last_checkpoint

\* C20: in every TrainState the key extractor has been applied to, two
\* different leaves have two different addresses.
C20_AddressesUnique ==
  extract.pc = "done" =>
    LET names == FlattenTrainState(extract.nested_names)
    IN /\ Len(names) = Len(FlattenTrainState(extract.state))
       /\ \A i, j \in 1..Len(names) : i # j => names[i].str # names[j].str

\* C21: for steps a and b below 10^8, the final directory of a sorts before
\* that of b exactly when a < b.
C21_MonotonicNaming ==
  naming.pc \in {"named", "parsed"} /\ naming.step < StepLimit /\ naming.other < StepLimit
    => (StrLess(naming.step_dir, naming.other_dir) <=> naming.step < naming.other)

C21_Witness ==
  /\ naming.pc = "named"
  /\ naming.step = 5000
  /\ naming.other = StepLimit - 1
  /\ naming.checkpoint_dir # <<>>
  /\ StrLess(naming.step_dir, naming.other_dir)

\* C22: the step parsed from the name of the final directory made for a step,
\* and from the name of the temporary directory made for it, is that step.
C22_ParseInvertsNaming ==
  naming.pc = "parsed" =>
    /\ naming.step_of_dir = naming.step
    /\ naming.step_of_tmp = naming.step

C22_Witness ==
  /\ naming.pc = "parsed"
  /\ naming.step = StepLimit
  /\ naming.checkpoint_dir # <<>>
  /\ naming.step_of_tmp = StepLimit

\* A name the naming functions make, or one of the two patterns.
WellFormedName(n) ==
  \/ _is_checkpoint_dir(n)
  \/ _is_tmp_checkpoint_dir(n)
  \/ /\ StartsWith(n, _CHECKPOINT_DIR_PREFIX)
     /\ Len(n) > Len(_CHECKPOINT_DIR_PREFIX) + Len(_TMP_DIR_KEYWORD)
     /\ AllDigits(Slice(n, Len(_CHECKPOINT_DIR_PREFIX), Len(n) - Len(_TMP_DIR_KEYWORD)))
     /\ Slice(n, Len(n) - Len(_TMP_DIR_KEYWORD), Len(n)) = _TMP_DIR_KEYWORD

\* C23: parsing a malformed name, one that is neither a final nor a temporary
\* checkpoint directory name, fails with a parsing error.
C23_MalformedRaises ==
  naming.pc = "parsed" /\ ~WellFormedName(naming.x) => naming.step_of_x = ValueError

\* C24: the temporary name made for a step is classified as temporary and not
\* as final and carries a suffix after the tmp keyword; the final name made for
\* it is classified as final and not as temporary.
C24_Classification ==
  naming.pc \in {"named", "parsed"} =>
    LET tmp == ListedName(naming.tmp_dir)
        final == ListedName(naming.step_dir)
    IN /\ _is_tmp_checkpoint_dir(tmp)
       /\ ~_is_checkpoint_dir(tmp)
       /\ Len(tmp) > Len(final) + Len(_TMP_DIR_KEYWORD)
       /\ _is_checkpoint_dir(final)
       /\ ~_is_tmp_checkpoint_dir(final)

\* Process p takes a step of the call it is executing.
Acts(p) == ci'[p] # ci[p] \/ pc'[p] # pc[p]

\* The call p is executing after the step passes a step of unexpected rank.
UnexpectedRank(p) ==
  LET c == script'[ci'[p]]
  IN \/ c.op = "save" /\ c.ndim \notin {0, 1}
     \/ c.op = "restore" /\ c.ndim # 0

\* C25: a save whose step has a rank other than 0 or 1, and a restore whose
\* step has a rank other than 0, raises ValueError and leaves the base
\* directory as it was.
C25_RankFatal ==
  [][\A p \in Procs :
       Acts(p) /\ UnexpectedRank(p) =>
         /\ fs' = fs
         /\ baseExists' = baseExists
         /\ pc'[p] = "error"
         /\ res'[p] = "ValueError"]_vars

\* C26: a save or restore called with a checkpoint type other than FLAX
\* raises an error and changes nothing in the base directory, with the GDA
\* switch on or off.
C26_TypeFatal ==
  [][\A p \in Procs :
       Acts(p) /\ script'[ci'[p]].checkpoint_type # "flax" =>
         /\ fs' = fs
         /\ baseExists' = baseExists
         /\ pc'[p] = "error"]_vars

\* The final checkpoint directories (or files) among the given names.
FinalNames(names) == {n \in names : _is_checkpoint_dir(n)}

\* The step of every final directory the step of the job creates is at least
\* the step of every final directory that exists.
CreatesNoLowerStep ==
  \A n \in FinalNames(DOMAIN fs') \ FinalNames(DOMAIN fs) :
    \A m \in FinalNames(DOMAIN fs) :
      _get_step_from_checkpoint_dirname(m) <= _get_step_from_checkpoint_dirname(n)

\* C27 (as stated): whatever the overwrite values of the saves, no save creates
\* a final directory of a lower step than that of an existing final directory.
C27_NonDecreasingAsStated == [][CreatesNoLowerStep]_vars

\* C27: a save without overwrite creates no final directory of a lower step
\* than that of an existing final directory (rank 0 creates the directories).
C27_NonDecreasing ==
  [][ci'[0] > 0 /\ ~script'[ci'[0]].overwrite => CreatesNoLowerStep]_vars

\* Saves of steps 0 and 1 without overwrite into an empty directory created
\* the two final directories in this order.
C27_Witness ==
  /\ gda
  /\ dir0 = <<TRUE, {}>>
  /\ Len(script) = 2
  /\ IsSave(script[1]) /\ IsSave(script[2])
  /\ script[1].step = 0 /\ script[2].step = 1
  /\ ~script[1].overwrite /\ ~script[2].overwrite
  /\ ci[0] = 2 /\ pc[0] = "idle" /\ res[0] = "saved"
  /\ FinalNames(DOMAIN fs) = {_make_checkpoint_step_dir(0), _make_checkpoint_step_dir(1)}

\* Process p takes a step of a restore call.
RestoreStepOf(p) == Acts(p) /\ ci'[p] > 0 /\ script'[ci'[p]].op = "restore"

\* The final directories the step of the job removes.
RemovedFinals == FinalNames(DOMAIN fs) \ FinalNames(DOMAIN fs')

\* m is removed by retention pruning: max_checkpoints final directories are
\* kept and m is older than each of them.
PrunedByRetention(m) ==
  /\ Cardinality(FinalNames(DOMAIN fs')) = max_checkpoints
  /\ \A n \in FinalNames(DOMAIN fs') :
       _get_step_from_checkpoint_dirname(m) < _get_step_from_checkpoint_dirname(n)

\* C28 (as stated): a restore step leaves the base directory and its contents
\* as they were, and a final directory is removed only by retention pruning.
C28_RestoreFrameAsStated ==
  [][/\ (\E p \in Procs : RestoreStepOf(p)) => fs' = fs /\ baseExists' = baseExists
     /\ \A m \in RemovedFinals : PrunedByRetention(m)]_vars

\* C28: a restore step leaves the base directory and its contents as they
\* were; a final directory is removed only by a save step of rank 0, either by
\* retention pruning or, with overwrite, because its step is higher than the
\* step saved.
C28_RestoreFrame ==
  [][/\ (\E p \in Procs : RestoreStepOf(p)) => fs' = fs /\ baseExists' = baseExists
     /\ \A m \in RemovedFinals :
          /\ Acts(0)
          /\ script'[ci'[0]].op = "save"
          /\ \/ PrunedByRetention(m)
             \/ /\ script'[ci'[0]].overwrite
                /\ _get_step_from_checkpoint_dirname(m) > script'[ci'[0]].step]_vars

\* A sharded restore has returned the latest checkpoint on every process and
\* the directory is what it was when the job started.
C28_Witness ==
  /\ gda
  /\ Len(script) >= 1 /\ script[1].op = "restore"
  /\ \A p \in Procs : ci[p] = 1 /\ pc[p] = "idle" /\ res[p] = "restored"
  /\ FinalNames(DOMAIN fs) # {}
  /\ DOMAIN fs = dir0[2]

\* C29: a process that has invoked the barrier after the writes of a save has
\* none of its per-leaf writes running, and a process that has invoked the
\* restore barrier has none of its per-leaf reads running and holds every leaf.
C29_IOBeforeBarrier ==
  /\ [](\A p \in Procs :
          /\ pc[p] = "s_bar3" => pending[p] = {}
          /\ pc[p] = "r_bar" => pending[p] = {} /\ DOMAIN ret[p] = Leaves)
  /\ [][\A p \in Procs :
          pc'[p] \in {"s_bar3", "r_bar"} /\ pc[p] # pc'[p] => pending[p] = {}]_vars

\* Process 1 waits at the barrier after its writes, all done, while rank 0 has
\* completed one of its writes and not the other.
C29_Witness ==
  /\ gda
  /\ pc[1] = "s_bar3" /\ pending[1] = {}
  /\ pc[0] = "s_write" /\ Cardinality(pending[0]) = 1
  /\ \A l \in Leaves :
       fs[_make_tmp_checkpoint_dir(Call(1).step)][l][1] = SavedState(Call(1))[l][1]

\* Process p has returned from a sharded save as skipped.
SkippedSave(p) == InSave(p) /\ pc[p] = "idle" /\ res[p] = "skipped"

FinalPublished ==
  \E n \in DOMAIN fs :
    /\ _is_checkpoint_dir(n)
    /\ _get_step_from_checkpoint_dirname(n) + save_interval_steps >= num_train_steps

\* C31 (as stated): under fair scheduling, when the trainer has published a
\* final checkpoint whose step plus save_interval_steps reaches
\* num_train_steps and the checkpoint stays in the directory, the evaluation
\* loop restores it and leaves the loop by its exit test.
C31_PollingTerminates ==
  <>[]FinalPublished => <>(ev.pc = "done")

\* C32 (as stated): when no process fails and every process issues the same
\* sequence of save calls, every save call a process has entered returns.
C32_SaveReturns ==
  (\A q \in Procs : [](pc[q] # "error"))
    => \A p \in Procs : (pc[p] # "idle") ~> (pc[p] = "idle")

\* The save calls of `step` the job has issued.
SavesOfStep(step) ==
  {script[i] : i \in {j \in 1..Len(script) : script[j].op = "save"
                                             /\ script[j].step = step}}

\* C33 (as stated): a final directory the job has produced holds the leaf
\* directories of the job's TrainState and no other, and every shard in it
\* was written by a save call of that step the job issued; nothing of what an
\* interrupted save left under the tmp name is in it.
C33_OnlyOwnData ==
  \A n \in (DOMAIN fs) \ dir0[2] :
    _is_checkpoint_dir(n) =>
      /\ DOMAIN fs[n] \subseteq Leaves
      /\ \A l \in DOMAIN fs[n] \cap Leaves, q \in Procs :
           \E c \in SavesOfStep(_get_step_from_checkpoint_dirname(n)) :
             fs[n][l][q] = SavedState(c)[l][q]

\* Positions of a save call before its barrier after the writes, and the
\* position of a process that raised.
BeforeWritesBarrier ==
  {"s_del", "s_bar1", "s_stale", "s_mktmp", "s_bar2", "s_mkdirs", "s_write", "error"}

\* C34 (as stated): when rank 0 has renamed the temp directory of a save and
\* returned from it, no process is in that save at a position before its
\* barrier after the writes, and none has raised in it: every process reached
\* the post-write barrier of that save.
C34_RenameNeedsAllAtBarrier ==
  InSave(0) /\ pc[0] = "idle" /\ res[0] = "saved" =>
    \A q \in Procs : ci[q] = ci[0] => pc[q] \notin BeforeWritesBarrier

\* The step of the TrainState the evaluation job holds: that of the checkpoint
\* it loaded last, the step of the initialised state when it loaded none.
LoadedStep ==
  IF ev.loaded = <<>> THEN InitialTrainState["step"][0][1]
  ELSE _get_step_from_checkpoint_dirname(ev.loaded)

\* C36 (as stated): whenever the evaluation job evaluates or tests its exit
\* condition with a final checkpoint as the last observed one, the TrainState
\* it holds has the step in that checkpoint's name.
C36_LoadedIsObserved ==
  ev.pc \in {"e_eval", "e_test"} /\ _is_checkpoint_dir(ev.last_checkpoint) =>
    LoadedStep = _get_step_from_checkpoint_dirname(ev.last_checkpoint)

\* C37 (as stated): a restore inside the polling loop never loads the
\* checkpoint the evaluation job already holds, the one it has just evaluated.
C37_NoStepTwice ==
  [][ev.pc = "e_reload" /\ ev'.pc = "e_eval" /\ ev.loaded # <<>>
       => ev'.loaded # ev.loaded]_vars

\* C39 (as stated): for every name the final-name classifier accepts, the
\* directory name rebuilt from the step parsed out of it is that name, so a
\* restore with the step omitted reads from a directory of its listing.
C39_RebuildsListedName ==
  /\ naming.pc = "parsed"
  /\ _is_checkpoint_dir(naming.x) /\ ~_is_tmp_checkpoint_dir(naming.x)
  => _make_checkpoint_step_dir(naming.step_of_x) = naming.x

\* C38 (as stated): with multi_host_checkpointing, when a final checkpoint
\* whose step plus save_interval_steps reaches num_train_steps has been
\* written into the directory restore reads and stays there, the poll detects
\* it and the loop is left by its exit test.
C38_MultiHostDetects ==
  ev.multi_host_checkpointing => (<>[]FinalPublished => <>(ev.pc = "done"))

\* C35 (as stated): in every restore round of the sharded evaluation job, the
\* same for every process, all processes read the same checkpoint directory
\* and so enter the barrier of the same name.
C35_SameRestoreStep ==
  \A p, q \in Procs :
    \A i \in 1..Len(sev[p].restored) :
      i <= Len(sev[q].restored) => sev[p].restored[i] = sev[q].restored[i]

====
